SPECIFICATION Spec
CONSTANTS
    Procs = {p1, p2}
    Pipes = {k1}
    Bytes = {b1, b2}
    NFILE = 3
    NOFILE = 2
    PIPESIZE = 2
    Counts = 4
    Sizes = {1, 3}
    None = None
CHECK_DEADLOCK FALSE
SYMMETRY Symmetry
INVARIANTS TypeOK RefCounts EndsOpen SleepersAwait
PROPERTY ChannelSpec
