CONSTANTS
    NumBlocks = 2
    BlockUnits = 1
    Zero = Zero
    Inputs = {A, B}
    Values <- MCValues
    MaxLog = 4
    MaxPending = 2
    ReadsFail = FALSE
    AppendAfterChain = TRUE
    AppendAfterTear = FALSE

SPECIFICATION Spec

INVARIANT SettledIsRecovered
