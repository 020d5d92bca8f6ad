\* What is reported of a corrupt sentence.
SPECIFICATION Spec
CONSTANTS
    Fragments = {f1, f2}
    Sizes = {2, 3}
    Lengths = {0, 1, 3}
    SizeMod = 4
    NoMessage = NoMessage
PROPERTY CorruptUnreported
