\* The instance of MCEngines.cfg.
SPECIFICATION ESpec
CONSTANTS
    Vars = {v1, v2, v3}
    N = 3
    MaxIterations = 3
    InputBytes = 1
    Names = {c_0000, c_TGT}
    Ladders <- MCLadders
    Keys <- MCKeys
    Offers <- MCOffers
    Cap = 2
    NoveltyCap = 4
    MaxHeap = 4
INVARIANT UnsatIsProof
CHECK_DEADLOCK FALSE
