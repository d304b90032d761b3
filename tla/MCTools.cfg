\* Files of up to three lines, signs of up to five characters.
SPECIFICATION Spec
CONSTANTS
    a = a
    b = b
    Tab = Tab
    Text <- Short
    MaxLines = 3
    Char = {a, b}
    NUL = NUL
    MaxSign = 5
INVARIANT RegisteredNotRefused
PROPERTY PartsKept
CHECK_DEADLOCK FALSE
