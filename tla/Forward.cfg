SPECIFICATION TypedSpec
CONSTANTS
    Absent = Absent
    Procs = {p1}
    Packages = {"black", "ruff"}
    Words = {"black", "ruff"}
    Exes = {1, 2}
    Provides <- MCProvides
    Files = {f1}
    Mode = "rootless"
    SkipVerify = {FALSE, TRUE}
    Readings <- MCReadings
    Unknown = Unknown
    Ambiguous = Ambiguous
    NoSuffix = NoSuffix
    Options = {"--python", "--force"}
    Joined = "@1"
    MaxOps = 3
    MaxTokens = 4
    MaxChars = 4
    OutOfBands = 2
INVARIANTS
    TypeOK
    NoFalseFinding
    NeverMisreads
    AlwaysReads
    ForwardedVerbatim
    LinksStayInside
    KeysAreStable
PROPERTIES
    QuietMeansOwnChanges
CHECK_DEADLOCK FALSE
