SPECIFICATION MCSpec
CONSTANTS
    NPROC = 2
    NAREA = 2
    NVA = 2
    Pages = {f1, f2}
    Requests <- MCRequests
    MaxCalls = 5
SYMMETRY Symmetry
CONSTRAINT Sound
INVARIANTS TypeOK MemSafe Conserved
PROPERTY NoRemap
CHECK_DEADLOCK FALSE
