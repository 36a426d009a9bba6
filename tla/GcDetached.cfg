SPECIFICATION HistorySpec
CONSTANTS
    Runs = {r1, r2}
    UserNames = {}
    PrefixedUserNames = {}
    NoRun = NoRun
    Unknown = Unknown
    Clients = {}
    Collectors = {c1}
    Options <- PlainOption
    NameModes = {"fresh"}
    Commands = {}
    Faults = {}
    Backend = "zfs"
INVARIANTS
    GcSparesAgreed
CHECK_DEADLOCK FALSE
