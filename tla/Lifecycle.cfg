SPECIFICATION Spec
CONSTANTS
    Runs = {r1, r2}
    UserNames = {u1}
    PrefixedUserNames = {}
    NoRun = NoRun
    Unknown = Unknown
    Clients = {k1}
    Collectors = {}
    Options <- MixedOptions
    NameModes = {"fresh", "user"}
    Commands = {"stop", "stop --rm", "rm", "exec", "commit"}
    Faults = {"crash", "db-read"}
    Backend = "zfs"
INVARIANTS
    TypeOK
    NoJailLeftBehind
    RowTellsTruth
    Bookkeeping
    HostVolumeSurvives
PROPERTIES
    KeepsContract
SYMMETRY RunSymmetry
CHECK_DEADLOCK FALSE
