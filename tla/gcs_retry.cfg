CONSTANTS
    Units = {x, y}
    MaxLength = 3
    MaxAttempts = 2

SPECIFICATION Spec

INVARIANT ClaimedIsStored
