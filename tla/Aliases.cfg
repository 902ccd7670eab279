SPECIFICATION Spec
CONSTANTS
    Absent = Absent
    Procs = {p1}
    Packages <- AliasPackages
    Suffixes <- AliasSuffixes
    Exes = {1, 2}
    ExeName <- AliasExeName
    InvalidExes = {}
    Provides <- AliasProvides
    Files = {}
    Mode = "rootless"
    ForceChoices = {FALSE}
    SkipVerify = {FALSE}
    MaxOps = 2
    Limit <- NoMishap
PROPERTIES
    SiblingsUntouched
CHECK_DEADLOCK FALSE
