SPECIFICATION Spec
CONSTANTS
    NCPU = 1
    NPROC = 3
    Nices = {0, 1}
    Width = 32
    Horizon = 5
    Delta <- MCDelta
INVARIANTS TypeOK FairShare SleepCredit
CHECK_DEADLOCK FALSE
VIEW View
