SPECIFICATION HistorySpec
CONSTANTS
    Runs = {r1, r2}
    UserNames = {}
    PrefixedUserNames = {}
    NoRun = NoRun
    Unknown = Unknown
    Clients = {}
    Collectors = {c1}
    Options <- PlainOption
    NameModes = {"own"}
    Commands = {}
    Faults = {"crash", "gc-crash", "jls", "db-read", "list", "jail-r"}
    Backend = "plaindir"
INVARIANTS
    GcSparesAgreed
    LeftoverJailIsFlagged
SYMMETRY RunSymmetry
CHECK_DEADLOCK FALSE
