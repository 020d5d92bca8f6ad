\* Times exactly as far from the update as is valid.
SPECIFICATION Spec
CONSTANTS
    Half = 8
    ValidOffset = 6
    FutureLimit = 2
    Horizon = 5
    MaxLate = 2
INVARIANT LimitIsValid
