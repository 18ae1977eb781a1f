\* Two addresses of code and two bytes; three debug registers, two of them
\* neighbours; one page, since an action is about one and the log only counts; a log
\* of two entries for three violations; three samples of two regions; three pages of
\* memory, so that a region can be longer than the cap.  One call of ResumeThread and
\* two of append_step fail: one may spoil the line of the next.
SPECIFICATION TracingSpec
CONSTANTS
    CodeVas = {1, 2}
    Bytes = {b1, b2}
    HwSlots = {0, 1, 3}
    HwSizes = {1, 4, 8}
    MaxStuck = 1
    Pages = {p1}
    Rights = {rw, rx}
    LogCap = 2
    MaxAccesses = 3
    Vas = {1, 2, 3}
    RegionIds = {1, 2}
    Levels = {1, 5, 8}
    HighLevel = 5
    Delta = 3
    MaxSamples = 3
    MaxAllocs = 1
    IatWindow = 2
    Ceiling = 3
    MaxPages = 2
    MaxRuns = 2
    MaxChanges = 1
    FlushEvery = 3
    MaxSteps = 3
    MaxErrors = 2
INVARIANTS TrapsAreClean TracesAreWhole
CHECK_DEADLOCK FALSE
