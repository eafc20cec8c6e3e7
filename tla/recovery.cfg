CONSTANTS
    NumBlocks = 2
    BlockUnits = 2
    Zero = Zero
    Values <- MCValues
    MaxLog = 3
    InitialLogs <- MCInitialLogs

SPECIFICATION FairSpec

INVARIANT TypeOK
INVARIANT MapRecovered
INVARIANT SizeRecovered
INVARIANT MappedWithinSize
INVARIANT OnlyCommittedServed
PROPERTY PadIsNeutral
PROPERTY Terminates
