SPECIFICATION FairSpec
CONSTANTS
    Runs = {r1}
    UserNames = {}
    PrefixedUserNames = {}
    NoRun = NoRun
    Unknown = Unknown
    Clients = {k1}
    Collectors = {c1, c2}
    Options <- ReclaimOptions
    NameModes = {"own"}
    Commands = {"stop", "commit"}
    Faults = {"crash", "gc-crash"}
    Backend = "zfs"
INVARIANTS
    RmReclaims
PROPERTIES
    RunReturns
    GcRemovesJails
    GcReclaimsDatasets
CHECK_DEADLOCK FALSE
