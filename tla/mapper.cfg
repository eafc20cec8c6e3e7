CONSTANTS
    NumBlocks = 2
    BlockUnits = 2
    Zero = Zero
    Inputs = {A}
    Values <- MCValues
    MaxLog = 3
    MaxPending = 3
    ReadsFail = TRUE
    AppendAfterChain = FALSE
    AppendAfterTear = FALSE

SPECIFICATION Spec

INVARIANT TypeOK
INVARIANT SessionInv
INVARIANT SettledIsRecovered
INVARIANT SizeNotLost
PROPERTY SyncKeepsContents
PROPERTY Implements
