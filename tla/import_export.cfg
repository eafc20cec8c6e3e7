CONSTANTS
    NumBlocks = 2
    BlockUnits = 2
    Zero = Zero
    A = A
    B = B
    Values <- MCValues
    Inputs <- MCInputs
    RawFiles <- MCRawFiles
    OldLogs <- MCOldLogs
    MaxLog = 6
    MaxPending = 4
    ReadsFail = FALSE
    AppendAfterChain = TRUE
    AppendAfterTear = TRUE

SPECIFICATION FairToolSpec

INVARIANT ToolTypeOK
INVARIANT RoundTrip
INVARIANT ImportIsAtomic
PROPERTY ToolEnds
