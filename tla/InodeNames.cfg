SPECIFICATION Spec
CONSTANTS
    Procs = {p1, p2}
    NINODES = 3
    NINODE = 3
    NBLOCKS = 2
    NFILE = 1
    MaxLinks = 2
    nx = nx
    nd = nd
    Names <- TwoNames
    Requests <- FewRequests
    None = None
CHECK_DEADLOCK FALSE
SYMMETRY Symmetry
VIEW View
INVARIANTS TypeOK RefCounts RefAllocated CacheCoherent LinksCovered BlocksOwned
