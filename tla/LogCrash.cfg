SPECIFICATION Spec
CONSTANTS
    Procs = {p1, p2, p3}
    Boot = boot
    Home = {a, b, c}
    Data = {0, 1}
    Blank = 0
    NotCached = NotCached
    LOGSIZE = 4
    MAXOPBLOCKS = 2
    NLOG = 4
    OpBlocks = 1
SYMMETRY Symmetry
INVARIANTS TypeOK PinnedUntilInstalled Durable NoPanic NoLostWaiter
PROPERTY AtomicSpec
