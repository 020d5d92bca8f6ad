\* The UART cannot be opened when the console is initialized.
SPECIFICATION Spec
CONSTANTS
    Bytes = {b1, b2}
    Direct = Direct
    None = None
    Size = 4
    Careless = {"open"}
INVARIANTS ConsoleDetached
