SPECIFICATION ManifestSpec
CONSTANTS
    Paths <- MCPaths
    LinkTo <- MCLinkTo
    Images <- MCImages
    Attempts = 2
    SearchDirs <- MCSearchDirs
    SkipDirs <- MCSkipDirs
    Names <- MCNames
    Binary <- MCBinary
    Registries <- MCRegistries
    Providers <- MCProviders
    Kind <- MCKind
    Listed <- MCListed
    Deps <- MCDeps
    Multi <- MCMulti
    Versioned <- MCVersioned
    Tool <- MCTool
    None = None
INVARIANTS
    TypeOK
    ExtractionIsOverlay
    FirstAttemptSucceeds
    RetrySucceeds
    ListsTopLevel
    PlanServes
    CompleteBaseServes
    ShadowIsOwn
CHECK_DEADLOCK FALSE
