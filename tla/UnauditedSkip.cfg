SPECIFICATION Spec
CONSTANTS
    Absent = Absent
    Procs = {p1}
    Packages = {"black"}
    Words = {"black"}
    Exes = {1, 2}
    Provides <- MCProvides
    Files = {f1}
    Mode = "rootless"
    SkipVerify = {FALSE, TRUE}
    Readings <- MCReadings
    Unknown = Unknown
    Ambiguous = Ambiguous
    NoSuffix = NoSuffix
    Options = {"--python", "--force"}
    Joined = "@1"
    MaxOps = 2
    OutOfBands = 0
INVARIANTS
    SkipIsAudited
CHECK_DEADLOCK FALSE
