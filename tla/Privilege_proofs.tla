-------------------------- MODULE Privilege_proofs --------------------------
(***************************************************************************)
(* Proofs about Privilege: the startup drop goes through and is complete,  *)
(* package code runs as uid 0 on nobody's command but root's --as-root,    *)
(* and the audit log stays writable for those who write the ledger.        *)
(***************************************************************************)
EXTENDS Privilege, TLAPS

USE DEF Users, Verbs, Modes, Commands, Credentials

\* What the drop has given up at each of its steps, and where it has led.
DropInv ==
    \A p \in Procs :
        /\ pc[p] = "start" => \E u \in Users : cred[p] = LoginOf(u)
        /\ pc[p] \in {"initgroups", "setgid", "setresuid"} =>
              cred[p].euid = "root"
        /\ pc[p] \in {"setgid", "setresuid", "regain"} =>
              cred[p].groups = {"svc"}
        /\ pc[p] \in {"setresuid", "regain"} => cred[p].gid = "svc"
        /\ pc[p] = "regain" =>
              /\ cred[p].ruid = "svc" /\ cred[p].euid = "svc"
              /\ cred[p].suid = "svc"
        /\ pc[p] \in {"idle", "start", "initgroups", "setgid", "setresuid",
                      "regain"} => ~ dropped[p]
        /\ pc[p] = "exec" => cmd[p].verb \in NeverEscalate

\* The invariant the theorems rest on.
IInv == TypeOK /\ DropInv /\ DropComplete /\ CoreInvariant

\* A command that ends leaves its process as it was before the first one.
LEMMA FinishLeaves ==
    ASSUME NEW p \in Procs, NEW code, TypeOK, Finish(p, code),
           code \in {"none", "ok", "error", "tripwire", "denied"}
    PROVE  /\ pc' \in [Procs -> PCs] /\ cmd' \in [Procs -> Commands]
           /\ cred' \in [Procs -> Credentials]
           /\ dropped' \in [Procs -> BOOLEAN] /\ mode' \in [Procs -> Modes]
           /\ exit' \in [Procs -> {"none", "ok", "error", "tripwire", "denied"}]
           /\ pc'[p] = "idle" /\ ~ dropped'[p]
           /\ \A q \in Procs \ {p} :
                 /\ pc'[q] = pc[q] /\ cmd'[q] = cmd[q] /\ cred'[q] = cred[q]
                 /\ dropped'[q] = dropped[q]
<1>1. NoCommand \in Commands /\ LoginOf("admin") \in Credentials
  BY DEF NoCommand, LoginOf
<1>2. /\ pc' = [pc EXCEPT ![p] = "idle"] /\ exit' = [exit EXCEPT ![p] = code]
      /\ cmd' = [cmd EXCEPT ![p] = NoCommand]
      /\ cred' = [cred EXCEPT ![p] = LoginOf("admin")]
      /\ dropped' = [dropped EXCEPT ![p] = FALSE]
      /\ mode' = [mode EXCEPT ![p] = "undetermined"]
  BY DEF Finish, Goto
<1>3. /\ pc \in [Procs -> PCs] /\ cmd \in [Procs -> Commands]
      /\ cred \in [Procs -> Credentials]
      /\ dropped \in [Procs -> BOOLEAN] /\ mode \in [Procs -> Modes]
      /\ exit \in [Procs -> {"none", "ok", "error", "tripwire", "denied"}]
  BY DEF TypeOK
<1> QED BY <1>1, <1>2, <1>3 DEF PCs

\* Such a step keeps what is said of the processes.
LEMMA FinishKeeps ==
    ASSUME NEW p \in Procs, NEW code, TypeOK, DropInv, DropComplete,
           Finish(p, code),
           code \in {"none", "ok", "error", "tripwire", "denied"}
    PROVE  DropInv' /\ DropComplete'
<1>1. /\ pc'[p] = "idle" /\ ~ dropped'[p]
      /\ \A q \in Procs \ {p} :
            /\ pc'[q] = pc[q] /\ cmd'[q] = cmd[q] /\ cred'[q] = cred[q]
            /\ dropped'[q] = dropped[q]
  BY FinishLeaves
<1>2. DropInv'
  BY <1>1 DEF DropInv
<1>3. DropComplete'
  BY <1>1 DEF DropComplete
<1> QED BY <1>2, <1>3

\* The audit log keeps its type.
LEMMA EmitAuditType ==
    ASSUME NEW p \in Procs, TypeOK, EmitAudit(p) \/ UNCHANGED auditLog
    PROVE  auditLog' \in Users \cup {"missing"}
<1>1. cred[p].euid \in Users
  BY DEF TypeOK
<1> QED BY <1>1 DEF TypeOK, EmitAudit

\* The child of a command runs under the uid of a user; as root only if ...
LEMMA ChildIsUser ==
    ASSUME NEW c \in Commands, NEW euid \in Users
    PROVE  /\ ChildRunsAs(c, euid) \in Users
           /\ HasServiceUser /\ ChildRunsAs(c, euid) = "root" =>
                 c.asRoot /\ c.verb \in {"plain", "other"}
BY DEF ChildRunsAs, WithoutServiceUser

----------------------------------------------------------------------------
(* Each action keeps the invariant                                         *)

LEMMA InvokeKeeps ==
    ASSUME IInv, NEW p \in Procs, Invoke(p)
    PROVE  IInv'
<1>1. PICK who \in Users : cred' = [cred EXCEPT ![p] = LoginOf(who)]
  BY PrivilegeAssumption DEF Invoke
<1>2. PICK c \in Commands : cmd' = [cmd EXCEPT ![p] = c]
  <2>1. PICK verb \in Cmds, asRoot \in AsRoot :
           cmd' = [cmd EXCEPT ![p] = [verb |-> verb, asRoot |-> asRoot,
                                      run |-> runs + 1]]
    BY DEF Invoke
  <2>2. runs + 1 \in Nat
    BY DEF IInv, TypeOK
  <2> QED BY <2>1, <2>2, PrivilegeAssumption
<1>3. LoginOf(who) \in Credentials
  BY DEF LoginOf
<1>4. TypeOK'
  <2>1. ordinary' \in BOOLEAN
    BY DEF Invoke
  <2> QED BY <1>1, <1>2, <1>3, <2>1 DEF IInv, TypeOK, Invoke, Goto, PCs, site
<1>5. DropInv' /\ DropComplete'
  BY <1>1, <1>2 DEF IInv, TypeOK, DropInv, DropComplete, Invoke, Goto
<1>6. CoreInvariant'
  BY DEF IInv, CoreInvariant, Invoke
<1> QED BY <1>4, <1>5, <1>6 DEF IInv

LEMMA StartupKeeps ==
    ASSUME IInv, NEW p \in Procs, Startup(p)
    PROVE  IInv'
<1>1. CoreInvariant'
  BY DEF IInv, CoreInvariant, Startup, history
<1>2. CASE Finish(p, "error")
  BY <1>1, <1>2, FinishLeaves, FinishKeeps
     DEF IInv, TypeOK, Startup, site, history
<1>3. CASE Goto(p, "initgroups") /\ UNCHANGED <<cmd, cred, dropped, mode, exit>>
  <2>1. cred[p].euid = "root"
    BY <1>3 DEF Startup, Goto, IInv, TypeOK, ShouldDrop
  <2> QED BY <1>1, <1>3, <2>1 DEF IInv, TypeOK, DropInv, DropComplete, Startup, Goto,
                                  PCs, site, history
<1>4. CASE /\ ~ ShouldDrop(cmd[p], cred[p].euid)
           /\ Goto(p, "dispatch")
           /\ UNCHANGED <<cmd, cred, dropped, mode, exit>>
  <2>1. PICK u \in Users : cred[p] = LoginOf(u)
    BY DEF IInv, DropInv, Startup
  <2>2. cmd[p].verb \in NeverEscalate /\ HasServiceUser => u # "root"
    BY <1>4, <2>1 DEF ShouldDrop, NeverEscalate, LoginOf
  <2> QED BY <1>1, <1>4, <2>1, <2>2
             DEF IInv, TypeOK, DropInv, DropComplete, Startup, Goto, PCs, site,
                 history
<1> QED BY <1>2, <1>3, <1>4 DEF Startup

LEMMA DropKeeps ==
    ASSUME IInv, NEW p \in Procs, Drop(p)
    PROVE  IInv'
<1>0. pc[p] \in {"initgroups", "setgid", "setresuid"} => cred[p].euid = "root"
  BY DEF IInv, DropInv
<1>1. CoreInvariant'
  BY DEF IInv, CoreInvariant, Drop, DropGroups, DropGid, DropUid, DropCall, DropFails,
         TryToRegain, history
<1>2. CASE DropGroups(p)
  <2> DEFINE after == [cred[p] EXCEPT !.groups = {"svc"}]
  <2>1. /\ cred' = [cred EXCEPT ![p] = after]
        /\ pc[p] = "initgroups" /\ pc' = [pc EXCEPT ![p] = "setgid"]
        /\ UNCHANGED <<site, cmd, dropped, mode, exit, runs, history>>
    BY <1>2, <1>0 DEF DropGroups, DropCall, NextCall, Goto, GroupsOfService
  <2>2. cred \in [Procs -> Credentials] /\ pc \in [Procs -> PCs]
    BY DEF IInv, TypeOK
  <2>3. after \in Credentials
    BY <2>2
  <2> HIDE DEF after
  <2>4. /\ cred' \in [Procs -> Credentials] /\ pc' \in [Procs -> PCs]
        /\ cred'[p] = after
        /\ \A q \in Procs \ {p} : cred'[q] = cred[q] /\ pc'[q] = pc[q]
    BY <2>1, <2>2, <2>3 DEF PCs
  <2>5. TypeOK'
    BY <2>1, <2>4 DEF IInv, TypeOK, site, history
  <2>6. DropInv'
    BY <2>1, <2>2, <2>4, <1>0 DEF IInv, DropInv, after
  <2>7. DropComplete'
    BY <2>1, <2>2, <2>4 DEF IInv, DropInv, DropComplete
  <2> QED BY <1>1, <2>5, <2>6, <2>7 DEF IInv
<1>3. CASE DropGid(p)
  <2> DEFINE after == [cred[p] EXCEPT !.gid = "svc"]
  <2>1. /\ cred' = [cred EXCEPT ![p] = after]
        /\ pc[p] = "setgid" /\ pc' = [pc EXCEPT ![p] = "setresuid"]
        /\ UNCHANGED <<site, cmd, dropped, mode, exit, runs, history>>
    BY <1>3, <1>0 DEF DropGid, DropCall, NextCall, Goto
  <2>2. cred \in [Procs -> Credentials] /\ pc \in [Procs -> PCs]
    BY DEF IInv, TypeOK
  <2>3. after \in Credentials
    BY <2>2
  <2> HIDE DEF after
  <2>4. /\ cred' \in [Procs -> Credentials] /\ pc' \in [Procs -> PCs]
        /\ cred'[p] = after
        /\ \A q \in Procs \ {p} : cred'[q] = cred[q] /\ pc'[q] = pc[q]
    BY <2>1, <2>2, <2>3 DEF PCs
  <2>5. TypeOK'
    BY <2>1, <2>4 DEF IInv, TypeOK, site, history
  <2>6. DropInv'
    BY <2>1, <2>2, <2>4, <1>0 DEF IInv, DropInv, after
  <2>7. DropComplete'
    BY <2>1, <2>2, <2>4 DEF IInv, DropInv, DropComplete
  <2> QED BY <1>1, <2>5, <2>6, <2>7 DEF IInv
<1>4. CASE DropUid(p)
  <2> DEFINE after == [cred[p] EXCEPT !.ruid = "svc", !.euid = "svc",
                                     !.suid = "svc"]
  <2>1. /\ cred' = [cred EXCEPT ![p] = after]
        /\ pc[p] = "setresuid" /\ pc' = [pc EXCEPT ![p] = "regain"]
        /\ UNCHANGED <<site, cmd, dropped, mode, exit, runs, history>>
    BY <1>4, <1>0 DEF DropUid, DropCall, NextCall, Goto
  <2>2. cred \in [Procs -> Credentials] /\ pc \in [Procs -> PCs]
    BY DEF IInv, TypeOK
  <2>3. after \in Credentials
    BY <2>2
  <2> HIDE DEF after
  <2>4. /\ cred' \in [Procs -> Credentials] /\ pc' \in [Procs -> PCs]
        /\ cred'[p] = after
        /\ \A q \in Procs \ {p} : cred'[q] = cred[q] /\ pc'[q] = pc[q]
    BY <2>1, <2>2, <2>3 DEF PCs
  <2>5. TypeOK'
    BY <2>1, <2>4 DEF IInv, TypeOK, site, history
  <2>6. DropInv'
    BY <2>1, <2>2, <2>4, <1>0 DEF IInv, DropInv, after
  <2>7. DropComplete'
    BY <2>1, <2>2, <2>4 DEF IInv, DropInv, DropComplete
  <2> QED BY <1>1, <2>5, <2>6, <2>7 DEF IInv
<1>5. CASE TryToRegain(p)
  <2>1. cred[p] = LoginOf("svc")
    BY <1>5 DEF IInv, TypeOK, DropInv, TryToRegain, LoginOf
  <2>2. /\ dropped' = [dropped EXCEPT ![p] = TRUE]
        /\ pc' = [pc EXCEPT ![p] = "dispatch"]
        /\ UNCHANGED <<cmd, cred, mode, exit, site, runs, history>>
    BY <1>5, <2>1 DEF TryToRegain, LoginOf, Goto
  <2>3. TypeOK'
    BY <2>2 DEF IInv, TypeOK, PCs, site, history
  <2>4. DropInv' /\ DropComplete'
    BY <2>1, <2>2 DEF IInv, TypeOK, DropInv, DropComplete
  <2> QED BY <1>1, <2>3, <2>4 DEF IInv
<1>6. CASE DropFails(p)
  BY <1>1, <1>6, FinishLeaves, FinishKeeps DEF IInv, TypeOK, DropFails, site, history
<1> QED BY <1>2, <1>3, <1>4, <1>5, <1>6 DEF Drop

LEMMA DispatchKeeps ==
    ASSUME IInv, NEW p \in Procs, Dispatch(p)
    PROVE  IInv'
<1>1. CoreInvariant'
  BY DEF IInv, CoreInvariant, Dispatch, history
<1>2. CASE Finish(p, "ok")
  BY <1>1, <1>2, FinishLeaves, FinishKeeps
     DEF IInv, TypeOK, Dispatch, site, history
<1>3. CASE /\ cmd[p].verb # "config"
           /\ Goto(p, NextPC(cmd[p].verb))
           /\ UNCHANGED <<cmd, cred, dropped, mode, exit>>
  <2>1. cmd[p].verb \in Verbs
    BY DEF IInv, TypeOK
  <2>2. /\ NextPC(cmd[p].verb) \in {"exec", "ln", "setup", "gate", "uv"}
        /\ NextPC(cmd[p].verb) = "exec" => cmd[p].verb \in NeverEscalate
    BY <1>3, <2>1 DEF NextPC, NeverEscalate
  <2>3. TypeOK'
    BY <1>3, <2>2 DEF IInv, TypeOK, Dispatch, Goto, PCs, site, history
  <2>4. DropInv' /\ DropComplete'
    BY <1>3, <2>2 DEF IInv, TypeOK, DropInv, DropComplete, Dispatch, Goto
  <2> QED BY <1>1, <2>3, <2>4 DEF IInv
<1> QED BY <1>2, <1>3 DEF Dispatch

LEMMA ExecKeeps ==
    ASSUME IInv, NEW p \in Procs, Exec(p)
    PROVE  IInv'
<1>1. cmd[p] \in Commands /\ cred[p].euid \in Users
  BY DEF IInv, TypeOK
<1>2. HasServiceUser => cred[p].euid # "root"
  BY DEF IInv, DropInv, DropComplete, Exec, LoginOf
<1>3. ran' \in {ran, ran \cup {[cmd |-> cmd[p], uid |-> cred[p].euid]}}
  BY DEF Exec
<1>4. CoreInvariant' /\ ran' \subseteq [cmd : Commands, uid : Users]
  BY <1>1, <1>2, <1>3 DEF IInv, TypeOK, CoreInvariant
<1>5. \E code \in {"ok", "error"} : Finish(p, code)
  BY DEF Exec
<1> QED BY <1>4, <1>5, FinishLeaves, FinishKeeps DEF IInv, TypeOK, Exec, site

LEMMA LnKeeps ==
    ASSUME IInv, NEW p \in Procs, Ln(p)
    PROVE  IInv'
<1>1. \E code \in {"ok", "error"} : Finish(p, code)
  BY DEF Ln
<1>2. CoreInvariant'
  BY DEF IInv, CoreInvariant, Ln, history
<1> QED BY <1>1, <1>2, FinishLeaves, FinishKeeps
           DEF IInv, TypeOK, Ln, site, history

LEMMA GateKeeps ==
    ASSUME IInv, NEW p \in Procs, Gate(p)
    PROVE  IInv'
<1>1. auditLog' \in Users \cup {"missing"}
  BY EmitAuditType DEF Gate, IInv
<1>2. CoreInvariant'
  BY DEF IInv, CoreInvariant, Gate, history
<1>3. CASE Finish(p, "error")
  BY <1>1, <1>2, <1>3, FinishLeaves, FinishKeeps DEF IInv, TypeOK, Gate, history
<1>4. CASE /\ \E label \in {"mode", "uv"} : Goto(p, label)
           /\ UNCHANGED <<cmd, cred, dropped, mode, exit>>
  BY <1>1, <1>2, <1>4
     DEF IInv, TypeOK, DropInv, DropComplete, Gate, Goto, PCs, history
<1> QED BY <1>3, <1>4 DEF Gate

LEMMA ReadModeKeeps ==
    ASSUME IInv, NEW p \in Procs, ReadMode(p)
    PROVE  IInv'
<1>1. SuffixMode \in Modes
  <2>1. DetectMode \in Modes
    BY DEF DetectMode, IInv, TypeOK
  <2> QED BY <2>1 DEF SuffixMode
<1>2. CoreInvariant'
  BY DEF IInv, CoreInvariant, ReadMode, history
<1>3. TypeOK'
  BY <1>1 DEF IInv, TypeOK, ReadMode, Goto, PCs, site, history
<1>4. DropInv' /\ DropComplete'
  BY DEF IInv, TypeOK, DropInv, DropComplete, ReadMode, Goto
<1> QED BY <1>2, <1>3, <1>4 DEF IInv

LEMMA RunUvKeeps ==
    ASSUME IInv, NEW p \in Procs, RunUv(p) \/ RunUvFails(p)
    PROVE  IInv'
<1> DEFINE uid == ChildRunsAs(cmd[p], cred[p].euid)
<1>1. cmd[p] \in Commands /\ cred[p].euid \in Users
  BY DEF IInv, TypeOK
<1>2. /\ uid \in Users
      /\ HasServiceUser /\ uid = "root" =>
            cmd[p].asRoot /\ cmd[p].verb \in {"plain", "other"}
  BY <1>1, ChildIsUser
<1>3. ran' \in {ran, ran \cup {[cmd |-> cmd[p], uid |-> uid]}}
  BY DEF RunUv, RunUvFails, history
<1> HIDE DEF uid
<1>4. CoreInvariant' /\ ran' \subseteq [cmd : Commands, uid : Users]
  BY <1>1, <1>2, <1>3 DEF IInv, TypeOK, CoreInvariant
<1>5. auditLog' \in Users \cup {"missing"}
  BY EmitAuditType DEF RunUv, RunUvFails, IInv
<1>6. UNCHANGED <<account, binDir, ledgerDir, runs, ordinary>>
  BY DEF RunUv, RunUvFails, history
<1>7. CASE \E code \in {"ok", "error"} : Finish(p, code)
  BY <1>4, <1>5, <1>6, <1>7, FinishLeaves, FinishKeeps DEF IInv, TypeOK
<1>8. CASE Goto(p, "ledger") /\ UNCHANGED <<cmd, cred, dropped, mode, exit>>
  BY <1>4, <1>5, <1>6, <1>8
     DEF IInv, TypeOK, DropInv, DropComplete, Goto, PCs
<1> QED BY <1>7, <1>8 DEF RunUv, RunUvFails

LEMMA WriteLedgerKeeps ==
    ASSUME IInv, NEW p \in Procs, WriteLedger(p)
    PROVE  IInv'
<1>1. \E code \in {"ok", "tripwire", "denied"} : Finish(p, code)
  BY DEF WriteLedger
<1>2. EmitAudit(p) \/ UNCHANGED auditLog
  BY DEF WriteLedger
<1>3. auditLog' \in Users \cup {"missing"}
  BY <1>2, EmitAuditType DEF IInv
<1>4. CoreInvariant'
  BY DEF IInv, CoreInvariant, WriteLedger, history
<1> QED BY <1>1, <1>3, <1>4, FinishLeaves, FinishKeeps
           DEF IInv, TypeOK, WriteLedger, history

LEMMA SetupKeeps ==
    ASSUME IInv, NEW p \in Procs, SetupTree(p) \/ SetupLedger(p)
    PROVE  IInv'
<1>1. CoreInvariant'
  BY DEF IInv, CoreInvariant, SetupTree, SetupLedger, history
<1>2. /\ account' \in BOOLEAN /\ binDir' \in {"svc", "root", "missing"}
      /\ ledgerDir' \in {"svc", "root", "missing"}
  BY DEF IInv, TypeOK, SetupTree, SetupLedger
<1>3. UNCHANGED <<auditLog, runs, history>>
  BY DEF SetupTree, SetupLedger
<1>4. CASE \E code \in {"ok", "error"} : Finish(p, code)
  BY <1>1, <1>2, <1>3, <1>4, FinishLeaves, FinishKeeps DEF IInv, TypeOK, history
<1>5. CASE /\ Goto(p, "setup2") /\ UNCHANGED <<cmd, cred, dropped, exit>>
           /\ \E m \in SetupChoices \ {"repair"} : mode' = [mode EXCEPT ![p] = m]
  <2>1. mode' \in [Procs -> Modes]
    BY <1>5, PrivilegeAssumption DEF IInv, TypeOK
  <2>2. TypeOK'
    BY <1>2, <1>3, <1>5, <2>1 DEF IInv, TypeOK, Goto, PCs, history
  <2>3. /\ pc' = [pc EXCEPT ![p] = "setup2"] /\ UNCHANGED <<cmd, cred, dropped>>
        /\ pc \in [Procs -> PCs]
    BY <1>5 DEF Goto, IInv, TypeOK
  <2>4. DropInv'
    BY <2>3 DEF IInv, DropInv
  <2>5. DropComplete'
    BY <2>3 DEF IInv, DropComplete
  <2> QED BY <1>1, <2>2, <2>4, <2>5 DEF IInv
<1>6. CASE SetupTree(p)
  <2>1. \/ Finish(p, "error")
        \/ Finish(p, IF account THEN "ok" ELSE "error")
        \/ /\ Goto(p, "setup2") /\ UNCHANGED <<cmd, cred, dropped, exit>>
           /\ \E m \in SetupChoices \ {"repair"} : mode' = [mode EXCEPT ![p] = m]
    BY <1>6 DEF SetupTree
  <2> QED BY <2>1, <1>4, <1>5
<1>7. CASE SetupLedger(p)
  BY <1>4, <1>7 DEF SetupLedger
<1> QED BY <1>6, <1>7

----------------------------------------------------------------------------
LEMMA InitIInv == Init => IInv
<1> SUFFICES ASSUME Init PROVE IInv
  OBVIOUS
<1>1. NoCommand \in Commands /\ LoginOf("admin") \in Credentials
  BY DEF NoCommand, LoginOf
<1>2. TypeOK
  <2>1. /\ account \in BOOLEAN /\ binDir \in {"svc", "root", "missing"}
        /\ ledgerDir \in {"svc", "root", "missing"}
        /\ auditLog \in Users \cup {"missing"}
    BY DEF Init
  <2>2. dropped \in [Procs -> BOOLEAN]
    BY DEF Init
  <2>3. /\ pc \in [Procs -> PCs] /\ cmd \in [Procs -> Commands]
        /\ cred \in [Procs -> Credentials] /\ mode \in [Procs -> Modes]
        /\ exit \in [Procs -> {"none", "ok", "error", "tripwire", "denied"}]
    BY <1>1 DEF Init, PCs
  <2>4. /\ runs \in Nat /\ ran \subseteq [cmd : Commands, uid : Users]
        /\ ordinary \in BOOLEAN
    BY DEF Init
  <2> QED BY <2>1, <2>2, <2>3, <2>4 DEF TypeOK
<1>3. DropInv /\ DropComplete /\ CoreInvariant
  BY DEF Init, DropInv, DropComplete, CoreInvariant
<1> QED BY <1>2, <1>3 DEF IInv

LEMMA NextIInv == IInv /\ [Next]_vars => IInv'
<1> SUFFICES ASSUME IInv, [Next]_vars PROVE IInv'
  OBVIOUS
<1>1. CASE UNCHANGED vars
  BY <1>1 DEF IInv, TypeOK, DropInv, DropComplete, CoreInvariant, vars, site,
              proc, history
<1>2. ASSUME NEW p \in Procs,
             \/ Invoke(p) \/ Startup(p) \/ Drop(p) \/ Dispatch(p)
             \/ Exec(p) \/ Ln(p) \/ Gate(p) \/ ReadMode(p)
             \/ RunUv(p) \/ RunUvFails(p) \/ WriteLedger(p)
             \/ SetupTree(p) \/ SetupLedger(p)
      PROVE  IInv'
  BY <1>2, InvokeKeeps, StartupKeeps, DropKeeps, DispatchKeeps, ExecKeeps,
     LnKeeps, GateKeeps, ReadModeKeeps, RunUvKeeps, WriteLedgerKeeps, SetupKeeps
<1> QED BY <1>1, <1>2 DEF Next

LEMMA AlwaysIInv == Spec => []IInv
BY InitIInv, NextIInv, PTL DEF Spec

\* Every variable keeps its type (credentials stay those of known users).
THEOREM PrivilegeTypeCorrect == Spec => []TypeOK
<1>1. IInv => TypeOK
  BY DEF IInv
<1> QED BY <1>1, AlwaysIInv, PTL

\* With a service user, package code runs as uid 0 only for --as-root on a
\* plain command, whatever the mode is and however it changes under way.
THEOREM CoreInvariantAlways == Spec => []CoreInvariant
<1>1. IInv => CoreInvariant
  BY DEF IInv
<1> QED BY <1>1, AlwaysIInv, PTL

\* After the startup drop nothing of root is left, and the commands that never
\* escalate get no further than that with root's credentials.
THEOREM DropCompleteAlways == Spec => []DropComplete
<1>1. IInv => DropComplete
  BY DEF IInv
<1> QED BY <1>1, AlwaysIInv, PTL

\* No call of the drop is refused by the kernel, and the check at its end never
\* finds root's uid left: each call comes while the process may make it.
THEOREM DropGoesThroughAlways == Spec => DropGoesThrough
<1> DEFINE Step(p) ==
      /\ pc[p] \in {"initgroups", "setgid", "setresuid"} /\ pc'[p] = "idle"
            => exit'[p] # "denied"
      /\ pc[p] = "regain" /\ pc'[p] # "regain" => pc'[p] = "dispatch"
<1>1. IInv /\ [Next]_vars => [\A p \in Procs : Step(p)]_vars
  <2> SUFFICES ASSUME IInv, Next, NEW p \in Procs,
                      pc[p] \in {"initgroups", "setgid", "setresuid", "regain"}
               PROVE  Step(p)
    BY DEF vars, proc
  <2>1. pc \in [Procs -> PCs] /\ exit \in
          [Procs -> {"none", "ok", "error", "tripwire", "denied"}]
    BY DEF IInv, TypeOK
  <2>2. ASSUME NEW q \in Procs, q # p,
               \/ \E code \in {"ok", "error", "tripwire", "denied"} : Finish(q, code)
               \/ \E label \in PCs : Goto(q, label)
        PROVE  pc'[p] = pc[p]
    BY <2>1, <2>2 DEF Finish, Goto
  <2>3. pc'[p] = pc[p] \/ Drop(p)
    <3>1. PICK q \in Procs :
             \/ Invoke(q) \/ Startup(q) \/ Drop(q) \/ Dispatch(q)
             \/ Exec(q) \/ Ln(q) \/ Gate(q) \/ ReadMode(q)
             \/ RunUv(q) \/ RunUvFails(q) \/ WriteLedger(q)
             \/ SetupTree(q) \/ SetupLedger(q)
      BY DEF Next
    <3>2. CASE q = p
      BY <3>1, <3>2 DEF Invoke, Startup, Dispatch, Exec, Ln, Gate, ReadMode, RunUv,
                        RunUvFails, WriteLedger, SetupTree, SetupLedger
    <3>3. CASE q # p
      <4>1. \A r \in Procs : pc'[r] = pc[r] \/ r = q
        BY <3>1, <2>1 DEF Invoke, Startup, Drop, DropGroups, DropGid, DropUid, DropCall,
                          DropFails, TryToRegain, Dispatch, Exec, Ln, Gate, ReadMode,
                          RunUv, RunUvFails, WriteLedger, SetupTree, SetupLedger,
                          Finish, Goto
      <4> QED BY <3>3, <4>1
    <3> QED BY <3>2, <3>3
  <2>4. CASE DropGroups(p) \/ DropGid(p) \/ DropUid(p)
    <3>1. cred[p].euid = "root"
      BY <2>4 DEF IInv, DropInv, DropGroups, DropGid, DropUid, DropCall
    <3>2. pc'[p] \in {"setgid", "setresuid", "regain"} /\ pc[p] # "regain"
      BY <2>1, <2>4, <3>1
         DEF DropGroups, DropGid, DropUid, DropCall, NextCall, Goto
    <3> QED BY <3>2
  <2>5. CASE DropFails(p)
    BY <2>1, <2>5 DEF DropFails, Finish
  <2>6. CASE TryToRegain(p)
    <3>1. cred[p].ruid = "svc" /\ cred[p].euid = "svc" /\ cred[p].suid = "svc"
      BY <2>6 DEF IInv, DropInv, TryToRegain
    <3> QED BY <2>1, <2>6, <3>1 DEF TryToRegain, Goto
  <2> QED BY <2>3, <2>4, <2>5, <2>6 DEF Drop
<1> QED BY <1>1, AlwaysIInv, PTL DEF Spec, DropGoesThrough

----------------------------------------------------------------------------
(* Who owns the audit log                                                  *)

Early == {"idle", "start", "initgroups", "setgid", "setresuid", "regain"}

\* As long as root does not intervene: a command past the startup drop is not
\* root's where the service user owns the ledger directory.
LogOK(p) ==
    /\ pc[p] # "setup2"
    /\ pc[p] # "idle" => ~ Intervenes(cmd[p], cred[p].euid)
    /\ pc[p] = "setup" => cmd[p].verb = "setup"
    /\ ledgerDir = "svc" /\ pc[p] \notin Early => cred[p].euid # "root"

\* The site is as it was at first, and so is the owner of the log.
LogInv ==
    HasServiceUser /\ ordinary =>
        /\ ledgerDir = "svc" => account /\ binDir = "svc"
        /\ ledgerDir = "svc" => auditLog \in {"missing", "svc"}
        /\ \A p \in Procs : LogOK(p)

LEMMA LogStep ==
    ASSUME IInv, LogInv, [Next]_vars
    PROVE  LogInv'
<1> SUFFICES ASSUME HasServiceUser, ordinary'
             PROVE  /\ ledgerDir' = "svc" => account' /\ binDir' = "svc"
                    /\ ledgerDir' = "svc" => auditLog' \in {"missing", "svc"}
                    /\ \A p \in Procs : LogOK(p)'
  BY DEF LogInv
<1> USE DEF Early
<1>1. TypeOK /\ DropInv
  BY DEF IInv
<1>2. CASE UNCHANGED vars
  BY <1>2 DEF LogInv, LogOK, Intervenes, vars, site, proc, history
<1>3. ASSUME NEW p \in Procs,
             \/ Invoke(p) \/ Startup(p) \/ Drop(p) \/ Dispatch(p)
             \/ Exec(p) \/ Ln(p) \/ Gate(p) \/ ReadMode(p)
             \/ RunUv(p) \/ RunUvFails(p) \/ WriteLedger(p)
             \/ SetupTree(p) \/ SetupLedger(p)
      PROVE  /\ ledgerDir' = "svc" => account' /\ binDir' = "svc"
             /\ ledgerDir' = "svc" => auditLog' \in {"missing", "svc"}
             /\ \A q \in Procs : LogOK(q)'
  <2>1. ordinary
    BY <1>3 DEF Invoke, Startup, Drop, DropGroups, DropGid, DropUid, DropCall, DropFails,
                TryToRegain, Dispatch, Exec, Ln, Gate, ReadMode, RunUv, RunUvFails,
                WriteLedger, SetupTree, SetupLedger, history
  <2>2. /\ ledgerDir = "svc" => account /\ binDir = "svc"
        /\ ledgerDir = "svc" => auditLog \in {"missing", "svc"}
        /\ \A q \in Procs : LogOK(q)
    BY <2>1 DEF LogInv
  <2>3. UNCHANGED <<account, binDir, ledgerDir>>
    <3>1. ~ SetupLedger(p)
      BY <2>2 DEF LogOK, SetupLedger
    <3>2. SetupTree(p) => UNCHANGED <<account, binDir, ledgerDir>>
      BY <2>2 DEF LogOK, SetupTree, Intervenes
    <3> QED
      BY <1>3, <3>1, <3>2
         DEF Invoke, Startup, Drop, DropGroups, DropGid, DropUid, DropCall, DropFails,
             TryToRegain, Dispatch, Exec, Ln, Gate, ReadMode, RunUv, RunUvFails,
             WriteLedger, site
  <2>4. auditLog' = auditLog \/ (EmitAudit(p) /\ pc[p] \in {"gate", "uv", "ledger"})
    BY <1>3
       DEF Invoke, Startup, Drop, DropGroups, DropGid, DropUid, DropCall, DropFails,
           TryToRegain, Dispatch, Exec, Ln, Gate, ReadMode, RunUv, RunUvFails,
           WriteLedger, SetupTree, SetupLedger, site
  <2>5. ledgerDir' = "svc" => auditLog' \in {"missing", "svc"}
    BY <2>2, <2>3, <2>4 DEF EmitAudit, CanAudit, CanWrite, LogOK
  <2>6. ASSUME NEW q \in Procs, q # p  PROVE LogOK(q)'
    <3>1. pc'[q] = pc[q] /\ cmd'[q] = cmd[q] /\ cred'[q] = cred[q]
      <4>1. ASSUME NEW code, Finish(p, code)
            PROVE  pc'[q] = pc[q] /\ cmd'[q] = cmd[q] /\ cred'[q] = cred[q]
        BY <1>1, <2>6, <4>1 DEF TypeOK, Finish, Goto
      <4>2. ASSUME NEW label, Goto(p, label)  PROVE pc'[q] = pc[q]
        BY <1>1, <2>6, <4>2 DEF TypeOK, Goto
      <4>3. CASE Invoke(p)
        BY <1>1, <2>6, <4>2, <4>3 DEF TypeOK, Invoke
      <4>4. CASE DropGroups(p) \/ DropGid(p) \/ DropUid(p)
        BY <1>1, <2>6, <4>1, <4>2, <4>4
           DEF TypeOK, DropGroups, DropGid, DropUid, DropCall
      <4>5. CASE \/ Startup(p) \/ DropFails(p) \/ TryToRegain(p) \/ Dispatch(p)
                 \/ Exec(p) \/ Ln(p) \/ Gate(p) \/ ReadMode(p)
        BY <4>1, <4>2, <4>5
           DEF Startup, DropFails, TryToRegain, Dispatch, Exec, Ln, Gate, ReadMode
      <4>6. CASE \/ RunUv(p) \/ RunUvFails(p) \/ WriteLedger(p)
                 \/ SetupTree(p) \/ SetupLedger(p)
        BY <4>1, <4>2, <4>6 DEF RunUv, RunUvFails, WriteLedger, SetupTree, SetupLedger
      <4> QED BY <1>3, <4>3, <4>4, <4>5, <4>6 DEF Drop
    <3> QED BY <2>2, <2>3, <3>1 DEF LogOK
  <2>7. LogOK(p)'
    <3>1. ASSUME NEW code, Finish(p, code)  PROVE LogOK(p)'
      BY <1>1, <3>1 DEF TypeOK, Finish, Goto, LogOK
    <3>2. CASE Invoke(p)
      <4>1. pc'[p] = "start" /\ ~ Intervenes(cmd'[p], cred'[p].euid)
        BY <1>1, <3>2 DEF TypeOK, Invoke, Goto
      <4> QED BY <4>1 DEF LogOK
    <3>3. CASE Startup(p)
      <4>1. CASE /\ ~ ShouldDrop(cmd[p], cred[p].euid)
                 /\ Goto(p, "dispatch")
                 /\ UNCHANGED <<cmd, cred, dropped, mode, exit>>
        <5>1. pc[p] = "start" /\ pc'[p] = "dispatch"
          BY <1>1, <3>3, <4>1 DEF TypeOK, Startup, Goto
        <5>2. ~ Intervenes(cmd[p], cred[p].euid)
          BY <2>2, <5>1 DEF LogOK
        <5>3. ledgerDir = "svc" => cred[p].euid # "root"
          BY <2>2, <4>1, <5>2 DEF ShouldDrop, Intervenes, DetectMode
        <5> QED BY <2>3, <4>1, <5>1, <5>2, <5>3 DEF LogOK
      <4>2. CASE Goto(p, "initgroups") /\ UNCHANGED <<cmd, cred, dropped, mode, exit>>
        <5>1. pc[p] = "start" /\ pc'[p] = "initgroups"
          BY <1>1, <3>3, <4>2 DEF TypeOK, Startup, Goto
        <5> QED BY <2>2, <4>2, <5>1 DEF LogOK
      <4> QED BY <3>1, <3>3, <4>1, <4>2 DEF Startup
    <3>4. CASE DropGroups(p) \/ DropGid(p) \/ DropUid(p)
      <4>1. cred[p].euid = "root" /\ pc[p] # "idle"
        BY <1>1, <3>4 DEF DropInv, DropGroups, DropGid, DropUid, DropCall
      <4>2. cred \in [Procs -> Credentials] /\ pc \in [Procs -> PCs]
        BY <1>1 DEF TypeOK
      <4>3. \E after \in { [cred[p] EXCEPT !.groups = {"svc"}], [cred[p] EXCEPT !.gid = "svc"],
                           [cred[p] EXCEPT !.ruid = "svc", !.euid = "svc", !.suid = "svc"] } :
               cred' = [cred EXCEPT ![p] = after]
        BY <3>4, <4>1 DEF DropGroups, DropGid, DropUid, DropCall, GroupsOfService
      <4>4. cred'[p].euid \in {"svc", "root"}
        BY <4>1, <4>2, <4>3
      <4>5. pc'[p] \in {"setgid", "setresuid", "regain"} /\ cmd' = cmd
        BY <3>4, <4>1, <4>2 DEF DropGroups, DropGid, DropUid, DropCall, NextCall, Goto
      <4> QED BY <2>2, <4>1, <4>4, <4>5 DEF LogOK, Intervenes
    <3>5. CASE TryToRegain(p)
      <4>1. cred[p].euid = "svc"
        BY <1>1, <3>5 DEF DropInv, TryToRegain
      <4>2. CASE /\ Goto(p, "dispatch") /\ UNCHANGED <<cmd, cred, mode, exit>>
        <5>1. pc'[p] = "dispatch"
          BY <1>1, <4>2 DEF TypeOK, Goto
        <5> QED BY <4>1, <4>2, <5>1 DEF LogOK, Intervenes
      <4> QED BY <3>1, <3>5, <4>2 DEF TryToRegain
    <3>6. CASE Dispatch(p)
      <4>1. CASE /\ cmd[p].verb # "config" /\ Goto(p, NextPC(cmd[p].verb))
                 /\ UNCHANGED <<cmd, cred, dropped, mode, exit>>
        <5>1. cmd[p].verb \in Verbs /\ pc[p] = "dispatch" /\ pc'[p] = NextPC(cmd[p].verb)
          BY <1>1, <3>6, <4>1 DEF TypeOK, Dispatch, Goto
        <5>2. /\ pc'[p] \in {"exec", "ln", "setup", "gate", "uv"}
              /\ pc'[p] = "setup" => cmd[p].verb = "setup"
          BY <4>1, <5>1 DEF NextPC
        <5> QED BY <2>2, <2>3, <4>1, <5>1, <5>2 DEF LogOK
      <4> QED BY <3>1, <3>6, <4>1 DEF Dispatch
    <3>7. CASE /\ \E label \in {"mode", "uv", "ledger"} : Goto(p, label)
               /\ UNCHANGED <<cmd, cred>> /\ pc[p] \in {"gate", "mode", "uv"}
      <4>1. pc'[p] \in {"mode", "uv", "ledger"}
        BY <1>1, <3>7 DEF TypeOK, Goto
      <4> QED BY <2>2, <2>3, <3>7, <4>1 DEF LogOK
    <3>8. CASE SetupTree(p)
      <4>1. cred[p].euid # "root"
        BY <2>2, <3>8 DEF LogOK, SetupTree, Intervenes
      <4> QED BY <3>1, <3>8, <4>1 DEF SetupTree
    <3>9. CASE SetupLedger(p)
      BY <3>1, <3>9 DEF SetupLedger
    <3> QED
      BY <1>3, <3>1, <3>2, <3>3, <3>4, <3>5, <3>6, <3>7, <3>8, <3>9
         DEF Drop, DropFails, Exec, Ln, Gate, ReadMode, RunUv, RunUvFails, WriteLedger
  <2> QED BY <2>2, <2>3, <2>5, <2>6, <2>7
<1> QED BY <1>2, <1>3 DEF Next

\* Until root runs `setup' or says --as-root, whoever can write the ledger can
\* write the audit log, any number of processes, root's among them, running at
\* the same time.
THEOREM LogStaysWritableAlways == Spec => []LogStaysWritable
<1>1. Init => LogInv
  BY DEF Init, LogInv, LogOK, Early
<1>2. IInv /\ LogInv /\ [Next]_vars => LogInv'
  BY LogStep
<1>3. IInv /\ LogInv => LogStaysWritable
  <2> SUFFICES ASSUME IInv, LogInv, HasServiceUser, ordinary, NEW p \in Procs,
                      pc[p] = "ledger", CanWrite(cred[p].euid, ledgerDir)
               PROVE  CanAudit(cred[p].euid)
    BY DEF LogStaysWritable
  <2>1. ledgerDir \in {"svc", "root", "missing"}
    BY DEF IInv, TypeOK
  <2>2. ledgerDir = "svc" => auditLog \in {"missing", "svc"}
    BY DEF LogInv
  <2> QED BY <2>1, <2>2 DEF CanWrite, CanAudit
<1> QED BY <1>1, <1>2, <1>3, AlwaysIInv, PTL DEF Spec
=============================================================================
