SPECIFICATION FairSpec
CONSTANTS
    NL = NL
    NUL = NUL
    MaxLine = 4
    Lengths = {0, 1, 2, 3, 4, 6}
    MaxLines = 4
    MaxChars = 11
INVARIANTS
    TypeOK
    CharactersInOrder
    TextEndsInBuffer
    WellWrittenIsCutIntoLines
PROPERTY EveryLineIsAnEvent
