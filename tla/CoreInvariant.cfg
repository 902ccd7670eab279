SPECIFICATION Spec
CONSTANTS
    Procs = {p1, p2}
    Callers = {"root", "svc", "admin"}
    Cmds <- Verbs
    AsRoot = {FALSE, TRUE}
    SetupChoices = {"rootless", "system-bin", "repair"}
    HasServiceUser = TRUE
    MaxRuns = 2
INVARIANTS
    TypeOK
    CoreInvariant
    DropComplete
    
PROPERTIES
    DropGoesThrough
CHECK_DEADLOCK FALSE
