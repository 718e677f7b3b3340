SPECIFICATION Spec
CONSTANTS
    CHAR = 16
    SHORT = 64
    INT = 256
    LONG = 4096
    Alphabet <- MCAlphabet
    Words <- MCWords
    Texts <- MCTexts
    Doubles <- MCDoubles
    UNITS = 4
    PRECISION = 2
    MaxDigits = 2
    MaxUnread = 1
INVARIANTS
    KprintfPrintsAsC
    VsprintfPrintsAsC
