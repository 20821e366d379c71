SPECIFICATION MCSpec
CONSTANTS
    NPROC = 2
    NAREA = 2
    NVA = 2
    Pages = {f1, f2}
    Requests <- MCRequests
    MaxCalls = 5
PROPERTY MunmapOwn
CHECK_DEADLOCK FALSE
