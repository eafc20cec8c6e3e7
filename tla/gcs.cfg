CONSTANTS
    Units = {x, y}
    MaxLength = 3
    MaxAttempts = 2

SPECIFICATION FairSpec

INVARIANT TypeOK
INVARIANT StoredInOrder
INVARIANT OffsetsAreReal
INVARIANT ReadsReturnAppended
INVARIANT AckedIsStored
PROPERTY ReadReturns
PROPERTY ImplementsObject
