SPECIFICATION Spec
CONSTANTS
    MaxChars = 5
    OverlapChars = 2
    MaxSections = 2
    MaxParagraphs = 3
    MaxLength = 6
INVARIANT ChunksBounded
PROPERTIES TextCovered ChunkReturns
CHECK_DEADLOCK FALSE
