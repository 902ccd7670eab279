SPECIFICATION Spec
CONSTANTS
    Absent = Absent
    Procs = {p1}
    Packages = {"black", "git"}
    Words = {"git", "git+https://host/black"}
    Exes = {1, 2}
    Provides <- MCProvides
    Files = {f1}
    Mode = "rootless"
    SkipVerify = {FALSE}
    Readings <- MCReadings
    Unknown = Unknown
    Ambiguous = Ambiguous
    NoSuffix = NoSuffix
    Options = {"--python", "--force"}
    Joined = "@1"
    MaxOps = 2
    OutOfBands = 0
PROPERTIES
    RollbackSparesOthers
CHECK_DEADLOCK FALSE
