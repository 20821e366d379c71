SPECIFICATION FairSpec
CONSTANTS
    NCPU = 1
    NPROC = 3
    MaxPid = 3
    KillPids = {2}
    SleepTicks = {1}
    Calls = {"fork", "wait", "kill", "sleep", "exit"}
PROPERTIES RunnableRuns ZombiesReaped KilledDies
