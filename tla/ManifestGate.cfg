SPECIFICATION ManifestSpec
CONSTANTS
    Paths <- MCPaths
    LinkTo <- MCLinkTo
    Images <- MCShort
    Attempts = 1
    SearchDirs <- MCSearchDirs
    SkipDirs <- MCSkipDirs
    Names <- MCNames
    Binary <- MCBinary
    Registries <- MCRegistries
    Providers <- MCProviders
    Kind <- MCKind
    Listed <- MCListed
    Deps <- MCDeps
    Multi <- MCMulti
    Versioned <- MCVersioned
    Tool <- MCTool
    None = None
INVARIANTS
    EveryBinaryRuns
CHECK_DEADLOCK FALSE
