\* Archives three deep where two levels are allowed, a heap of four files that
\* the members of an archive overflow, ten bytes, two failing calls.
SPECIFICATION FairSpec
CONSTANTS
    Pe = Pe
    Junk = Junk
    A = A
    B = B
    C = C
    Names = {"x", "y"}
    Contents <- MCContents
    Size <- MCSize
    Format <- MCFormat
    Archived <- MCArchived
    Findings <- MCFindings
    Tree <- MCTree
    ArchiveDepth = 2
    MaxFiles = 4
    MaxBytes = 10
    SingleFileByteLimit = 3
    NoExtractArchives = FALSE
    MaxFailures = 2
INVARIANTS EveryFileHasOnePlace WorkIsBounded
PROPERTIES ScanEventuallyEnds
CHECK_DEADLOCK FALSE
