\* A buffer whose size is not a power of two.
SPECIFICATION RxSpec
CONSTANTS
    Chars = {x, y}
    NoChar = NoChar
    RxSize = 3
PROPERTIES ImplementsQueue
