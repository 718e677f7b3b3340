SPECIFICATION FairSpec
CONSTANTS
    CHUNK = 4
    FIRST = 5
    LAST = 16
    Memories <- MCMemories
    Pointers <- MCPointers
    Counts <- MCCounts
    Values <- MCValues
INVARIANTS
    JobRight
    CallRight
    AnswersRight
PROPERTIES
    CallsReturn
