\* Every input of every family; the sets are in the modules of the families.
SPECIFICATION ASpec
INVARIANTS ImagesAreFaithful FlowIsWhatRuns ValuesAreSound
    TraceIsTold ChainsAreJustified ReportsAgree BenchmarkIsHonest
CHECK_DEADLOCK FALSE
