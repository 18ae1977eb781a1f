\* Every input of every family; every path of three constraints over three
\* variables for the slicer, where some reach the cap and some the fixpoint; the
\* default, the complete and the empty ladder with one byte and two assertions;
\* three keys, a backlog of two items and three kinds of items.
SPECIFICATION ESpec
CONSTANTS
    Vars = {v1, v2, v3}
    N = 3
    MaxIterations = 3
    InputBytes = 1
    Names = {c_0000, c_TGT}
    Ladders <- MCLadders
    Keys <- MCKeys
    Offers <- MCOffers
    Cap = 2
    NoveltyCap = 4
    MaxHeap = 4
INVARIANTS SliceIsExact MarkedIsUnreachable OutcomeIsBestAttempt IndicesAgree
    SolversAgree PortableClaimsHold FuzzInputsReachTargets
PROPERTIES AgedItemsLeave
CHECK_DEADLOCK FALSE
