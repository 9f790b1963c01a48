SPECIFICATION Spec
CONSTANTS
    NL = NL
    NUL = NUL
    MaxLine = 4
    Lengths = {3}
    MaxLines = 3
    MaxChars = 12
INVARIANT OneEventPerLine
