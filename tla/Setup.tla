------------------------------- MODULE Setup -------------------------------
(***************************************************************************)
(* `uvctl setup' (setup.py): the account, the directories and the files it *)
(* makes, one system call after the other.  Several setups may run at once *)
(* and each may stop anywhere.                                             *)
(*                                                                         *)
(* "tree" stands for tool_dir, python_install_dir and cache_dir, which are *)
(* treated alike and one after the other, and "ledger" for /var/lib/uvctl. *)
(***************************************************************************)
EXTENDS Naturals, Configuration

CONSTANTS
    Procs,     \* the uvctl processes
    Callers,   \* who invokes them: "root", service users, or others
    Requests,  \* command lines of setup to explore
    Envs,      \* environments to explore
    FoundUv,   \* what shutil.which("uv") may say
    MaxOps,    \* bound: commands started in one behaviour
    MaxStops   \* bound: how many of them are stopped half-way

Groups == {"none", "valid", "unsafe"}

\* --bin-dir, --service-user, --write-sudoers with an --admin-group (or not),
\* --repair
CommandLines ==
    [ bin_dir : BinDirs \cup {Unset, Empty}, service_user : ServiceUsers \cup {Unset, Empty},
      group : Groups, repair : BOOLEAN ]

Environments == [ {"bin_dir"} -> BinDirs \cup {Unset, Empty} ]

ASSUME SetupAssumption ==
    /\ Requests \subseteq CommandLines /\ Envs \subseteq Environments
    /\ FoundUv \subseteq UvPaths \cup {Unset}
    /\ MaxOps \in Nat /\ MaxStops \in Nat
    /\ "tree" \notin BinDirs /\ "ledger" \notin BinDirs
    /\ "missing" \notin ServiceUsers

Dirs   == BinDirs \cup {"tree", "ledger"}
Owners == ServiceUsers \cup {"root"}

----------------------------------------------------------------------------
VARIABLES
    accounts, \* service users that have an account
    owner,    \* [Dirs -> the owner, or "missing"]
    inside,   \* [Dirs -> owners of the regular entries in it]
    config,   \* config.toml: a source of settings, NoFile if there is none
    profile,  \* the bin_dir of the profile.d snippet
    group,    \* does the admin group exist?
    sudoers,  \* the user the sudoers fragment is for

    pc,
    eff,      \* the settings a setup works on
    admins,   \* its --admin-group, "none" without --write-sudoers
    exit,     \* exit of the last command

    ops, stops,
    settled,  \* history: the last setup ended well, and nobody interfered
    alone,    \* history: processes that nobody ran beside
    again     \* history: setups that repeat the settled one without asking
              \* for anything

site    == <<accounts, owner, inside, config, profile, group, sudoers>>
proc    == <<pc, eff, admins, exit>>
bounds  == <<ops, stops>>
history == <<settled, alone, again>>
vars    == <<site, proc, bounds, history>>

SetupPCs == { "lookup", "useradd", "make tree", "own tree", "make bin", "own bin",
              "config", "make ledger", "own ledger", "profile", "group", "sudoers",
              "repair tree", "repair in tree", "repair bin", "repair in bin" }

SiteOK ==
    /\ accounts \subseteq ServiceUsers
    /\ owner \in [Dirs -> Owners \cup {"missing"}]
    /\ inside \in [Dirs -> SUBSET Owners]
    /\ config \in Files
    /\ profile \in BinDirs \cup {Unset}
    /\ group \in BOOLEAN
    /\ sudoers \in ServiceUsers \cup {Unset}

HistoryOK ==
    /\ ops \in Nat /\ stops \in Nat
    /\ settled \in BOOLEAN /\ alone \subseteq Procs /\ again \subseteq Procs

SetupTypeOK ==
    /\ SiteOK /\ HistoryOK
    /\ pc \in [Procs -> SetupPCs \cup {"idle"}]
    /\ eff \in [Procs -> Files]
    /\ admins \in [Procs -> Groups]
    /\ exit \in [Procs -> {"none", "ok", "error", "raised", "died"}]

\* A server without uvctl: only system directories exist.
Init ==
    /\ accounts = {}
    /\ owner = [d \in Dirs |-> IF d \in SystemBinDirs THEN "root" ELSE "missing"]
    /\ inside = [d \in Dirs |-> IF d \in SystemBinDirs THEN {"root"} ELSE {}]
    /\ config = NoFile /\ profile = Unset
    /\ group = FALSE /\ sudoers = Unset
    /\ pc = [p \in Procs |-> "idle"]
    /\ eff = [p \in Procs |-> NoFile]
    /\ admins = [p \in Procs |-> "none"]
    /\ exit = [p \in Procs |-> "none"]
    /\ ops = 0 /\ stops = 0
    /\ settled = FALSE /\ alone = {} /\ again = {}

----------------------------------------------------------------------------
(* Helpers                                                                 *)

Goto(p, label) == pc' = [pc EXCEPT ![p] = label]

Finish(p, code) ==
    /\ Goto(p, "idle")
    /\ exit' = [exit EXCEPT ![p] = code]
    /\ eff'  = [eff EXCEPT ![p] = NoFile]
    /\ admins' = [admins EXCEPT ![p] = "none"]

\* The process that starts is alone if nobody else is at work.
Count(p) ==
    /\ ops < MaxOps
    /\ ops' = ops + 1
    /\ alone' = IF \A q \in Procs \ {p} : pc[q] = "idle" THEN {p} ELSE {}

\* Who owns bin_dir and the ledger directory: root in system-bin mode.
OwnerFor(e) == IF IsSystemBin(e.bin_dir) THEN "root" ELSE e.service_user

----------------------------------------------------------------------------
(* main(): up to the first change                                          *)

\* require_root()
Refuse(p) ==
    /\ pc[p] = "idle" /\ Callers # {"root"}
    /\ Count(p)
    /\ Finish(p, "error")
    /\ UNCHANGED <<site, stops, settled, again>>

\* Does a setup with these arguments ask for nothing new?
Repeats(request, env, uv) ==
    /\ request.bin_dir = Unset /\ request.service_user = Unset
    /\ request.group = "none" /\ env["bin_dir"] = Unset
    /\ uv \in {Unset, config.uv_path}

\* With the settings e to work on.  No uv on PATH and none recorded: an error.
\* _repair() looks the account up first and lets the KeyError out.
StartWith(p, request, e, repeats) ==
    \/ /\ e.uv_path = Unset
       /\ Finish(p, "error")
       /\ UNCHANGED <<settled, again>>
    \/ /\ e.uv_path # Unset /\ request.repair
       /\ settled' = (settled /\ e = config /\ ~ IsSystemBin(e.bin_dir))
       /\ IF e.service_user \in accounts
          THEN /\ Goto(p, "repair tree")
               /\ eff' = [eff EXCEPT ![p] = e]
               /\ exit' = [exit EXCEPT ![p] = "none"]
               /\ UNCHANGED admins
          ELSE Finish(p, "raised")
       /\ again' = again \ {p}
    \/ /\ e.uv_path # Unset /\ ~ request.repair
       /\ settled' = FALSE
       /\ again' = IF settled /\ p \in alone' /\ repeats
                   THEN again \cup {p} ELSE again \ {p}
       /\ Goto(p, "lookup")
       /\ eff' = [eff EXCEPT ![p] = e]
       /\ admins' = [admins EXCEPT ![p] = request.group]
       /\ exit' = [exit EXCEPT ![p] = "none"]

Start(p) ==
    /\ pc[p] = "idle" /\ "root" \in Callers
    /\ Count(p)
    /\ \E request \in Requests, env \in Envs, uv \in FoundUv :
          StartWith(p, request, ResolveEffective(request, Resolve(env, config), uv),
                    Repeats(request, env, uv))
    /\ UNCHANGED <<site, stops>>

----------------------------------------------------------------------------
(* _ensure_service_user(), _ensure_dir_owned(), _ensure_root_dir()         *)

\* What every step past the start leaves alone.
Running == <<eff, admins, exit, bounds, history>>

\* Variant: the config is written before anything else.
LookupWritesConfig(p) ==
    /\ pc[p] = "lookup"
    /\ config' = eff[p]
    /\ Goto(p, IF eff[p].service_user \in accounts THEN "make tree" ELSE "useradd")
    /\ UNCHANGED <<accounts, owner, inside, profile, group, sudoers, Running>>

Lookup(p) ==
    /\ pc[p] = "lookup"
    /\ Goto(p, IF eff[p].service_user \in accounts THEN "make tree" ELSE "useradd")
    /\ UNCHANGED <<site, Running>>

\* useradd fails on an account that has appeared since.
UserAdd(p) ==
    /\ pc[p] = "useradd"
    /\ LET user == eff[p].service_user IN
       \/ /\ user \notin accounts
          /\ accounts' = accounts \cup {user}
          /\ Goto(p, "make tree")
          /\ UNCHANGED <<eff, admins, exit>>
       \/ /\ user \in accounts
          /\ Finish(p, "error")
          /\ UNCHANGED accounts
    /\ UNCHANGED <<owner, inside, config, profile, group, sudoers, bounds, history>>

\* os.makedirs(exist_ok) as root
MakeDir(p, label, dir, next) ==
    /\ pc[p] = label
    /\ owner' = [owner EXCEPT ![dir] = IF @ = "missing" THEN "root" ELSE @]
    /\ Goto(p, next)
    /\ UNCHANGED <<accounts, inside, config, profile, group, sudoers, Running>>

\* Variant: only what is still root's is handed over.
Keeps(dir, who) == IF owner[dir] = "root" THEN who ELSE owner[dir]

\* The owner after os.chown()
Chowned(dir, who) == who

OwnDir(p, label, dir, who, next) ==
    /\ pc[p] = label
    /\ owner' = [owner EXCEPT ![dir] = Chowned(dir, who)]
    /\ Goto(p, next)
    /\ UNCHANGED <<accounts, inside, config, profile, group, sudoers, Running>>

MakeTree(p)   == MakeDir(p, "make tree", "tree", "own tree")
OwnTree(p)    == OwnDir(p, "own tree", "tree", eff[p].service_user, "make bin")
MakeBin(p)    == MakeDir(p, "make bin", eff[p].bin_dir, "own bin")
OwnBin(p)     == OwnDir(p, "own bin", eff[p].bin_dir, OwnerFor(eff[p]), "config")
MakeLedger(p) == MakeDir(p, "make ledger", "ledger", "own ledger")
OwnLedger(p)  == OwnDir(p, "own ledger", "ledger", OwnerFor(eff[p]), "profile")

----------------------------------------------------------------------------
(* The files, each replaced by a rename (_atomic_write)                    *)

WriteConfig(p) ==
    /\ pc[p] = "config"
    /\ config' = eff[p]
    /\ Goto(p, "make ledger")
    /\ UNCHANGED <<accounts, owner, inside, profile, group, sudoers, Running>>

\* A setup that is done and that nobody ran beside has settled the site.
Done(p) ==
    /\ Finish(p, "ok")
    /\ settled' = (p \in alone)
    /\ UNCHANGED <<alone, again>>

\* Without --write-sudoers this is the end.  The group's name is looked at here.
WriteProfile(p) ==
    /\ pc[p] = "profile"
    /\ profile' = eff[p].bin_dir
    /\ \/ /\ admins[p] = "none"
          /\ Done(p)
       \/ /\ admins[p] = "unsafe"
          /\ Finish(p, "error")
          /\ UNCHANGED history
       \/ /\ admins[p] = "valid"
          /\ Goto(p, "group")
          /\ UNCHANGED <<eff, admins, exit, history>>
    /\ UNCHANGED <<accounts, owner, inside, config, group, sudoers, bounds>>

\* _ensure_admin_group(); a groupadd that fails is a Stop.
AddGroup(p) ==
    /\ pc[p] = "group"
    /\ group' = TRUE
    /\ Goto(p, "sudoers")
    /\ UNCHANGED <<accounts, owner, inside, config, profile, sudoers, Running>>

\* validate_sudoers() may reject the fragment, which is then not installed.
WriteSudoers(p) ==
    /\ pc[p] = "sudoers"
    /\ \/ /\ sudoers' = eff[p].service_user
          /\ Done(p)
       \/ /\ Finish(p, "error")
          /\ UNCHANGED <<sudoers, history>>
    /\ UNCHANGED <<accounts, owner, inside, config, profile, group, bounds>>

----------------------------------------------------------------------------
(* _repair(): os.walk() from the top, symlinks excepted                    *)

RepairDir(p, label, dir, next) ==
    /\ pc[p] = label
    /\ owner' = [owner EXCEPT ![dir] = IF @ = "missing" THEN @ ELSE eff[p].service_user]
    /\ Goto(p, next)
    /\ UNCHANGED <<accounts, inside, config, profile, group, sudoers, Running>>

\* Variant: the walk stops at the top.
RepairNothingInside(dir, user) == inside' = inside

RepairInside(dir, user) ==
    inside' = [inside EXCEPT ![dir] = IF @ = {} THEN {} ELSE {user}]

RepairTree(p) == RepairDir(p, "repair tree", "tree", "repair in tree")
RepairBin(p)  == RepairDir(p, "repair bin", eff[p].bin_dir, "repair in bin")

RepairInTree(p) ==
    /\ pc[p] = "repair in tree"
    /\ RepairInside("tree", eff[p].service_user)
    /\ Goto(p, "repair bin")
    /\ UNCHANGED <<accounts, owner, config, profile, group, sudoers, Running>>

RepairInBin(p) ==
    /\ pc[p] = "repair in bin"
    /\ RepairInside(eff[p].bin_dir, eff[p].service_user)
    /\ Finish(p, "ok")
    /\ UNCHANGED <<accounts, owner, config, profile, group, sudoers, bounds, history>>

----------------------------------------------------------------------------
\* A full disk, a lost race or a kill: setup stops, and undoes nothing.
Stop(p) ==
    /\ pc[p] \in SetupPCs /\ stops < MaxStops
    /\ stops' = stops + 1
    /\ Finish(p, "died")
    /\ UNCHANGED <<site, ops, history>>

SetupStep(p) ==
    \/ Lookup(p) \/ UserAdd(p)
    \/ MakeTree(p) \/ OwnTree(p) \/ MakeBin(p) \/ OwnBin(p)
    \/ WriteConfig(p) \/ MakeLedger(p) \/ OwnLedger(p)
    \/ WriteProfile(p) \/ AddGroup(p) \/ WriteSudoers(p)
    \/ RepairTree(p) \/ RepairInTree(p) \/ RepairBin(p) \/ RepairInBin(p)

SetupNext(p) == Refuse(p) \/ Start(p) \/ SetupStep(p) \/ Stop(p)

Next == \E p \in Procs : SetupNext(p)
Spec == Init /\ [][Next]_vars
=============================================================================
