SPECIFICATION AllSpec
CONSTANTS
    Unset = Unset
    Empty = Empty
    BinDirs = {"/opt/uv/bin", "/usr/local/bin"}
    SystemBinDirs = {"/usr/local/bin"}
    ServiceUsers = {"uvctl", "other"}
    UvPaths = {"uv1"}
    DefaultBinDir = "/opt/uv/bin"
    DefaultUser = "uvctl"
    Procs = {p1}
    Callers = {"root"}
    Requests <- RepairRequests
    Envs <- NoOverride
    FoundUv = {"uv1"}
    Verbs = {"suffixed", "plain"}
    MaxOps = 3
    MaxStops = 0
INVARIANTS
    SystemBinStaysRoots
CHECK_DEADLOCK FALSE
