SPECIFICATION FairSpec
CONSTANTS
    p1 = p1
    p2 = p2
    p3 = p3
    r1 = r1
    r2 = r2
    i1 = i1
    b1 = b1
    Procs = {p1, p2, p3}
    Asks <- ThreeAsks
    Refs <- References
    Ids = {i1}
    Registry = {r1, r2}
    IdOf <- IdOfReference
    Bases = {b1}
    BaseOf <- OneBase
    NoBase = NoBase
    Nobody = Nobody
    Backends = {"zfs", "plaindir"}
    MayFail = TRUE
INVARIANTS
    TypeOK
    ImagesAreWhole
    NamedBaseIsRegistered
    StoreInv
PROPERTIES
    PublishedStays
    KeepsImageContract
    CommandsEnd
CHECK_DEADLOCK FALSE
