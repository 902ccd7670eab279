SPECIFICATION Spec
CONSTANTS
    Absent = Absent
    Procs = {p1}
    Packages <- OnePackage
    Suffixes <- OneSuffix
    Exes = {1, 2}
    ExeName <- MCExeName
    InvalidExes = {}
    Provides <- BothExes
    Files = {f1}
    Mode = "system-bin"
    ForceChoices = {FALSE, TRUE}
    SkipVerify = {FALSE}
    MaxOps = 2
    Limit <- NoMisname
PROPERTIES
    CommitIsAccounted
    NoForceNoOverwrite
CHECK_DEADLOCK FALSE
