CONSTANTS
    NumBlocks = 2
    BlockUnits = 1
    Zero = Zero
    Inputs = {A, B}
    Values <- MCValues
    PageData <- MCPageData
    Units <- Record
    MaxLength = 4
    MaxPending = 3
    AppendAfterChain = FALSE

SPECIFICATION Spec
SYMMETRY InputSymmetry

INVARIANT TypeOK
INVARIANT AllOrNothing
INVARIANT SessionSeesCommitted
INVARIANT ReadsAreStored
PROPERTY Implements
