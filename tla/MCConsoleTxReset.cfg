\* The UART is reset and released while the console has bytes queued.
SPECIFICATION Spec
CONSTANTS
    Bytes = {b1, b2}
    Direct = Direct
    None = None
    Size = 4
    Careless = {"reset"}
INVARIANTS TransmitterArmed
