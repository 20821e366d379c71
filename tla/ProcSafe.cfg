SPECIFICATION Spec
CONSTANTS
    NCPU = 2
    NPROC = 3
    MaxPid = 3
    KillPids = {0, 2, 3}
    SleepTicks = {1}
    Calls = {"fork", "wait", "kill", "sleep", "exit"}
INVARIANTS TypeOK StacksExclusive RunningIsOnCPU SchedDiscipline ExitNotMissed TickNotMissed FamilyOK ProcInv
