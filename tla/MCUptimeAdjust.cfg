\* An adjustment in a later era than the epoch's.
SPECIFICATION Spec
CONSTANTS
    Half = 8
    ValidOffset = 6
    FutureLimit = 2
    Horizon = 5
    MaxLate = 2
INVARIANT AdjustedCoincides
