SPECIFICATION RxSpec
CONSTANTS
    Chars = {x, y}
    NoChar = NoChar
    RxSize = 4
INVARIANT Listens
PROPERTY ImplementsQueue
