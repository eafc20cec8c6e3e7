CONSTANTS
    Connections = {c1, c2, c3}
    Databases = {d1, d2}
    Overlapping = {d2}
    MaxBatches = 1

SPECIFICATION Spec
SYMMETRY ConnectionSymmetry

INVARIANT TypeOK
INVARIANT NeverDangles
INVARIANT ExclusiveOwner
INVARIANT KnowsTheLog
INVARIANT JournalReported
