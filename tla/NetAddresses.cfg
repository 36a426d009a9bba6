SPECIFICATION Spec
CONSTANTS
    r1 = r1
    r2 = r2
    r3 = r3
    p1 = p1
    p2 = p2
    Runs = {r1, r2}
    Procs = {p1, p2}
    JailNames <- MCJailNames
    Plans <- Apart
    Names <- MCNames
    Resolve <- MCResolve
    AnyPort = AnyPort
    Ports = {53, 443}
    Resolvers = {4}
    Inside = {5}
    Pool = {2, 3}
    Blocks = 1
    Confs <- WiredOnly
    AnchorOrder <- MCAnchorOrder
    TagOf <- MCTagOf
    None = None
    Faults = {}
INVARIANTS
    EgressIsOwnPolicy
CHECK_DEADLOCK FALSE
