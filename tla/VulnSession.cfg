\* Two runs, up to two rows of evidence between them, one failure or kill.
SPECIFICATION VulnSpec
CONSTANTS
    Programs <- MCPrograms
    LifetimeChains <- MCLifetimeChains
    Contained <- MCContained
    VulnOptions <- MCOptions
    Observations <- MCObservations
    TopN = 1
    MaxRows = 2
    MaxFaults = 1
INVARIANTS EvidenceIsHonest DirectoryIsThisRun
