\* Four events against a channel of two and a flush every two; one failing call.
SPECIFICATION FairSpec
CONSTANTS
    ChannelCap = 2
    FlushEvery = 2
    MaxEvents = 4
    MaxErrors = 1
INVARIANTS DropsAreDeclared TracedFromTheStart LossIsBounded
PROPERTIES RecordingEnds
CHECK_DEADLOCK FALSE
