SPECIFICATION AllSpec
CONSTANTS
    Unset = Unset
    Empty = Empty
    BinDirs = {"/opt/uv/bin", "/usr/local/bin"}
    SystemBinDirs = {"/usr/local/bin"}
    ServiceUsers = {"uvctl", "other"}
    UvPaths = {"uv1"}
    DefaultBinDir = "/opt/uv/bin"
    DefaultUser = "uvctl"
    Procs = {p1, p2}
    Callers = {"root", "uvctl", "admin"}
    Requests <- MCRequests
    Envs <- MCEnvs
    FoundUv = {Unset, "uv1"}
    Verbs = {"suffixed", "plain"}
    MaxOps = 3
    MaxStops = 1
INVARIANTS
    TypeOK
    ConfigNamesOwnedSite
    NoHalfWay
PROPERTIES
    SetupOkMeansReady
    RerunChangesNothing
    RepairOkMeansOwned
CHECK_DEADLOCK FALSE
