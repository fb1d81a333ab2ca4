SPECIFICATION Spec
CONSTANTS
    Threads = {t1, t2}
    Chunks = {c1, c2}
    Null = Null
    MaxChunks = 0
    ChunkSize = 8
    Header = 1
    MaxAlign = 2
    Allocations <- OneSize
PROPERTIES ResetCompletes
CHECK_DEADLOCK FALSE
