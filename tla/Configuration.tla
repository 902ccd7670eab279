--------------------------- MODULE Configuration ---------------------------
(***************************************************************************)
(* Where a setting comes from (config.py), and what `uvctl setup' makes of *)
(* the settings and its flags before it does anything (setup.py).          *)
(*                                                                         *)
(* A source of settings is a function from Keys to values, Unset where it  *)
(* says nothing.  bin_dir stands for tool_dir too, which resolves in the   *)
(* same way; python_install_dir and cache_dir have neither flag nor        *)
(* environment variable and are left out.                                  *)
(***************************************************************************)
CONSTANTS
    BinDirs,       \* values of bin_dir
    SystemBinDirs, \* those in _SYSTEM_BIN_DIRS
    ServiceUsers,  \* values of service_user
    UvPaths,       \* values of uv_path
    DefaultBinDir, \* DEFAULTS["bin_dir"]
    DefaultUser,   \* DEFAULTS["service_user"]
    Unset,         \* no value
    Empty          \* the empty string

ASSUME ConfigurationAssumption ==
    /\ SystemBinDirs \subseteq BinDirs
    /\ DefaultBinDir \in BinDirs /\ DefaultUser \in ServiceUsers
    /\ Unset # Empty
    /\ {Unset, Empty} \cap (BinDirs \cup ServiceUsers \cup UvPaths) = {}
    /\ "root" \notin ServiceUsers

Keys == {"bin_dir", "service_user", "uv_path"}

\* ENV_OVERRIDES and DEFAULTS; uv_path has no default.
EnvOverrides == {"bin_dir"}
Defaults == [ bin_dir |-> DefaultBinDir, service_user |-> DefaultUser,
              uv_path |-> Unset ]

Values(key) == CASE key = "bin_dir"      -> BinDirs
                 [] key = "service_user" -> ServiceUsers
                 [] key = "uv_path"      -> UvPaths

\* load_config_file(): an absent file is an empty table.
NoFile == [key \in Keys |-> Unset]
Files  == { f \in [Keys -> BinDirs \cup ServiceUsers \cup UvPaths \cup {Unset}] :
              \A key \in Keys : f[key] \in Values(key) \cup {Unset} }

Setting(value, source) == [value |-> value, source |-> source]

\* Variant: the file is not looked at.
PickWithoutFile(key, env, file) ==
    IF key \in EnvOverrides /\ env[key] \notin {Unset, Empty}
    THEN Setting(env[key], "env")
    ELSE Setting(Defaults[key], "default")

\* resolve()'s pick(): environment, file, default, and else "unset"
Pick(key, env, file) ==
    IF key \in EnvOverrides /\ env[key] \notin {Unset, Empty}
    THEN Setting(env[key], "env")
    ELSE IF file[key] # Unset
         THEN Setting(file[key], "file")
         ELSE Setting(Defaults[key], IF Defaults[key] = Unset THEN "unset" ELSE "default")

Resolve(env, file) == [key \in Keys |-> Pick(key, env, file)]

\* The values of a Config, without their sources.
Valued(cfg) == [key \in Keys |-> cfg[key].value]

\* active_env_overrides(): what every install prints
ActiveOverrides(cfg) == { key \in Keys : cfg[key].source = "env" }

----------------------------------------------------------------------------
(* setup: resolve_effective(), is_system_bin()                             *)

\* `flag or setting': an empty flag is no flag.
Overlay(flag, value) == IF flag \in {Unset, Empty} THEN value ELSE flag

\* resolve_effective(), and the uv that is recorded: the one found on PATH, or
\* the one recorded before.
ResolveEffective(flags, cfg, foundUv) ==
    [ bin_dir      |-> Overlay(flags.bin_dir, cfg["bin_dir"].value),
      service_user |-> Overlay(flags.service_user, cfg["service_user"].value),
      uv_path      |-> Overlay(foundUv, cfg["uv_path"].value) ]

IsSystemBin(dir) == dir \in SystemBinDirs
=============================================================================
