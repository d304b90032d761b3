\* A line in which the name of another user occurs.
SPECIFICATION Spec
CONSTANTS
    a = a
    b = b
    Tab = Tab
    Text <- Short
    MaxLines = 3
    Char = {a, b}
    NUL = NUL
    MaxSign = 5
INVARIANT EachUserByItsLine
CHECK_DEADLOCK FALSE
