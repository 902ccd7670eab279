SPECIFICATION FairSpec
CONSTANTS
    Absent = Absent
    Procs = {p1, p2}
    Packages <- TwoPackages
    Suffixes <- OneSuffix
    Exes = {1}
    ExeName <- MCExeName
    InvalidExes = {}
    Provides <- SharedExe
    Files = {f1}
    Mode = "rootless"
    ForceChoices = {FALSE, TRUE}
    SkipVerify = {FALSE}
    MaxOps = 2
    Limit <- NoMisname
INVARIANTS
    TypeOK
    OneActive
    HonestLedger
PROPERTIES
    NoForceNoOverwrite
    Terminates
CHECK_DEADLOCK FALSE
