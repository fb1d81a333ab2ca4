SPECIFICATION Spec
CONSTANTS
    Threads = {t1, t2}
    Chunks = {c1, c2, c3, c4}
    Null = Null
    MaxChunks = 1
    ChunkSize = 8
    Header = 1
    MaxAlign = 2
    Allocations <- TwoSizes
SYMMETRY Symmetric
INVARIANTS PoolInvariant ExclusiveChunks CounterTracksQueue PoolBounded NothingLeaks ObjectsIntact
CHECK_DEADLOCK FALSE
