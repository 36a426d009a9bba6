SPECIFICATION Spec
CONSTANTS
    Procs = {p1, p2}
    Template = Template
    Faults = {}
INVARIANTS
    ExtractedIsOwnLayer
SYMMETRY ProcSymmetry
CHECK_DEADLOCK FALSE
