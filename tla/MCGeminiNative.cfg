CONSTANTS
    Names = {f1, f2}
    MaxWords = 3
    ChunkSize = 2
SPECIFICATION NativeSpec
INVARIANT StreamTellsText
CHECK_DEADLOCK FALSE
