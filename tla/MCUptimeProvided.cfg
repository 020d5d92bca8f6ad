\* An adjustment without an epoch, or after the clock stood still.
SPECIFICATION Spec
CONSTANTS
    Half = 8
    ValidOffset = 6
    FutureLimit = 2
    Horizon = 5
    MaxLate = 2
INVARIANT EpochProvided
