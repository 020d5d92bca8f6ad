\* Waiting for space after the interrupts were switched off with bytes queued.
SPECIFICATION Spec
CONSTANTS
    Bytes = {b1, b2}
    Direct = Direct
    None = None
    Size = 4
    Careless = {}
INVARIANTS DirectModeNeverSleeps
