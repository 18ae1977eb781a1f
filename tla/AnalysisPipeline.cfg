\* Nine option sets; every pass, every file, every error and kill point; at
\* most one cap and one short file per run.
SPECIFICATION Spec
CONSTANTS
    OptionSets <- SwitchedOptions
    MaxCaps = 1
    MaxShort = 1
INVARIANTS RunIsConsistent RunTellsTheTruth
CHECK_DEADLOCK FALSE
