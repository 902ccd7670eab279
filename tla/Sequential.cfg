SPECIFICATION Spec
CONSTANTS
    Absent = Absent
    Procs = {p1}
    Packages <- TwoPackages
    Suffixes <- OneSuffix
    Exes = {1, 2, 3}
    ExeName <- MCExeName
    InvalidExes = {3}
    Provides <- ChangingExes
    Files = {f1}
    Mode = "rootless"
    ForceChoices = {FALSE, TRUE}
    SkipVerify = {FALSE, TRUE}
    MaxOps = 3
    Limit <- NoOob
INVARIANTS
    VerifyQuiet
    
PROPERTIES
    LeftoversNeverRefuse
    SiblingsUntouched
    AppendOrReplace
    InstallOkMeansLinked
    UninstallOkMeansGone
    RemovesOnlyOwnLinks
    InstallsSideBySide
CHECK_DEADLOCK FALSE
