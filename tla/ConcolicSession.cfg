\* Two sessions, each with a branch and a slot of its name, two
\* models and one failing file-system call.
SPECIFICATION FairSpec
CONSTANTS
    Sessions = {s1, s2}
    Models = {m1, m2}
    EmptyModel = EmptyModel
    Slots = {s1, s2}
    Hits = {0, 1, 9}
    Items = {s1, s2}
    Frontier <- OwnBranch
    FlipSlot <- OwnSlot
    ProbeSlots <- OtherSlots
    None = None
    MaxIoErrors = 1
INVARIANTS CreditHasQueueFile MergedStaysCredited
PROPERTIES AllRunsEnd
CHECK_DEADLOCK FALSE
