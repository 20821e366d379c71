SPECIFICATION Spec
CONSTANTS
    Procs = {p1, p2}
    Blocks = {k1, k2, k3, k4}
    Data = {d1, d2}
    NBUF = 3
    None = None
SYMMETRY Symmetry
INVARIANTS TypeOK BufferStays NoEarlyPanic IoPending
PROPERTY StoreSpec
