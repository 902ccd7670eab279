SPECIFICATION Spec
CONSTANTS
    Absent = Absent
    Procs = {p1}
    Packages <- OnePackage
    Suffixes <- OneSuffix
    Exes = {1, 2}
    ExeName <- MCExeName
    InvalidExes = {}
    Provides <- BothExes
    Files = {f1}
    Mode = "rootless"
    ForceChoices = {FALSE}
    SkipVerify = {FALSE}
    MaxOps = 1
    Limit <- NoMishap
INVARIANTS
    LinksRecorded
CHECK_DEADLOCK FALSE
