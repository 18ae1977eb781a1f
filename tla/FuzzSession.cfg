\* Two inputs, one slot with two buckets, all three executors, two kills and
\* one failing file-system call.
SPECIFICATION Spec
CONSTANTS
    Inputs = {x1, x2}
    Slots = {s1}
    Hits = {0, 1, 9}
    Frames = {"f1"}
    PanicKinds = {"k1"}
    Backends = {"Emulator", "InProcess", "Hybrid"}
    None = None
    MaxRuns = 3
    MaxKills = 2
    MaxIoErrors = 1
INVARIANTS KillersRecoverable NoLostCrash DiskIsSound
CHECK_DEADLOCK FALSE
