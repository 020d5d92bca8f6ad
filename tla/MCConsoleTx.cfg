SPECIFICATION Spec
CONSTANTS
    Bytes = {b1, b2}
    Direct = Direct
    None = None
    Size = 4
    Careless = {}
INVARIANTS TransmitterArmed SleeperIsAwaited
PROPERTIES CallsReturn ImplementsChannel
