\* Two sessions of one host, two pids (so that one can be handed out again
\* while the other is in use), a budget of two events.
SPECIFICATION FairSpec
CONSTANTS
    Pids = {p1, p2}
    MaxSessions = 2
    EventCap = 2
INVARIANTS RightProcess
PROPERTIES TargetsAndSessionsEnd
CHECK_DEADLOCK FALSE
