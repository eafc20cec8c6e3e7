CONSTANTS
    NumBlocks = 2
    BlockUnits = 1
    Zero = Zero
    A = A
    B = B
    Values <- MCValues
    Compactors = {c1, c2}
    Written <- MCWritten
    MaxRecords = 3
    MaxGenerations = 3
    AppendsMeanwhile = FALSE
    CopyReadsFail = TRUE

SPECIFICATION Spec

INVARIANT ContentsKept
