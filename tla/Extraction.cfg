SPECIFICATION SequentialSpec
CONSTANTS
    Procs = {p1, p2, p3}
    Template = Template
    Faults = {"crash", "cp", "mount", "jail", "tar", "umount", "timeout"}
INVARIANTS
    TypeOK
    ExtractedIsOwnLayer
    NothingStays
SYMMETRY ProcSymmetry
CHECK_DEADLOCK FALSE
