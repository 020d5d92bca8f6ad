\* The frame around an empty message.
SPECIFICATION Spec
CONSTANTS
    Fragments = {f1, f2}
    Sizes = {2, 3}
    Lengths = {0, 1, 3}
    SizeMod = 4
    NoMessage = NoMessage
PROPERTY FrameLengthRight
