\* The epoch when the clock is suspended.
SPECIFICATION Spec
CONSTANTS
    Half = 8
    ValidOffset = 6
    FutureLimit = 2
    Horizon = 5
    MaxLate = 2
PROPERTY SuspendInvalidates
