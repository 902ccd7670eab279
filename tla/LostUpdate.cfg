SPECIFICATION Spec
CONSTANTS
    Absent = Absent
    Procs = {p1, p2}
    Packages <- OnePackage
    Suffixes <- TwoSuffixes
    Exes = {1, 2}
    ExeName <- MCExeName
    InvalidExes = {}
    Provides <- BothExes
    Files = {}
    Mode = "rootless"
    ForceChoices = {FALSE}
    SkipVerify = {FALSE}
    MaxOps = 2
    Limit <- NoMishap
PROPERTIES
    AppendOrReplace
CHECK_DEADLOCK FALSE
