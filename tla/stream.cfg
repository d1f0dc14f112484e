\* Three attempts; a line is three pieces, a chunk up to eight.
SPECIFICATION FairSpec
CONSTANTS
    MaxRetries = 2
    Script <- MCScript
    Width = 3
    MaxChunk = 8
INVARIANTS
    NothingLostInChunks
    DoneMeansWhole
    ErrorIsLastResort
PROPERTIES
    StreamEnds
CHECK_DEADLOCK FALSE
