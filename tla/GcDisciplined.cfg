SPECIFICATION DisciplinedSpec
CONSTANTS
    Runs = {r1, r2}
    UserNames = {}
    PrefixedUserNames = {}
    NoRun = NoRun
    Unknown = Unknown
    Clients = {k1}
    Collectors = {c1}
    Options <- RmOption
    NameModes = {"own"}
    Commands = {"stop --rm"}
    Faults = {"crash"}
    Backend = "zfs"
INVARIANTS
    LiveJailKeepsRootfs
    QuietMeansClean
PROPERTIES
    GcHarmsNoExecutingRun
SYMMETRY RunSymmetry
CHECK_DEADLOCK FALSE
