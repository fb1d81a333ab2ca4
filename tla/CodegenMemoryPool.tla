-------------------------- MODULE CodegenMemoryPool --------------------------
(***************************************************************************)
(* PochiVM's pool of code-generation memory and the arenas it feeds        *)
(* (PochiVM/pochivm/global_codegen_memory_pool.h and                       *)
(* codegen_arena_allocator.h).                                             *)
(*                                                                         *)
(* GlobalCodegenMemoryPool keeps free chunks in a lock-free queue and      *)
(* counts them, approximately, in an atomic: the queue operation and the   *)
(* counter update are two steps.  A TempArenaAllocator, one per thread,    *)
(* carves objects out of chunks that it links through their first word,    *)
(* and gives every chunk back when it is reset.                            *)
(*                                                                         *)
(* Addresses are pairs of a chunk and an offset; a chunk is aligned to     *)
(* every alignment that may be asked for, so an offset is aligned exactly  *)
(* when its address is.                                                    *)
(***************************************************************************)
EXTENDS Integers, FiniteSets

CONSTANTS
    Threads,    \* the threads, each with an arena
    Chunks,     \* the chunk addresses the operating system may hand out
    Null,       \* the address 0
    MaxChunks,  \* x_maxChunksInMemoryPool
    ChunkSize,  \* x_memoryChunkSize
    Header,     \* the bytes of a chunk used as list link
    MaxAlign,   \* the largest alignment, and the part of a chunk never asked for
    Allocations \* the requests made: [align, size]

ASSUME ThreadsAssumption == IsFiniteSet(Threads) /\ Threads # {}
ASSUME ChunksAssumption == IsFiniteSet(Chunks) /\ Null \notin Chunks
ASSUME MaxChunksAssumption == MaxChunks \in Nat
ASSUME SizesAssumption ==
    /\ ChunkSize \in Nat /\ Header \in Nat /\ MaxAlign \in Nat
    /\ 0 < Header /\ Header <= MaxAlign /\ MaxAlign < ChunkSize
\* The assertions of Allocate() on its arguments.
ASSUME AllocationsAssumption ==
    Allocations \subseteq [align : 1 .. MaxAlign, size : 1 .. ChunkSize - MaxAlign]
\* Alignments are powers of two up to 4096 (AlignCurrentAddress): all of them
\* divide the largest.
ASSUME AlignmentsAssumption == \A r \in Allocations : MaxAlign % r.align = 0

VARIABLES
    freeList,  \* m_freeList: the chunks in the queue
    approx,    \* m_freeListSizeApproximation
    mapped,    \* the chunks mapped into the process
    lost,      \* the chunks munmap failed to give back
    link,      \* the first word of each chunk
    pc,        \* what each thread does next
    chunk,     \* the chunk a thread is getting or freeing
    next,      \* the local `next' of FreeAllMemoryChunks
    listHead,  \* m_listHead
    cur,       \* m_currentAddress, as an offset into the head of the list
    end,       \* m_currentAddressEnd, as an offset
    request,   \* the allocation that waits for a chunk
    objects,   \* history: the live objects of each arena
    owned      \* history: the chunks each thread may touch

pool  == <<freeList, approx>>
os    == <<mapped, lost>>
arena == <<listHead, cur, end, request, objects>>
vars  == <<pool, os, arena, link, pc, chunk, next, owned>>

Labels == {"idle", "dequeue", "subtract", "mmap", "link",
           "unlink", "load", "enqueue", "add", "munmap"}
Objects == [chunk : Chunks, lo : Nat, hi : Nat]

TypeOK ==
    /\ freeList \in SUBSET Chunks
    /\ approx \in Int
    /\ mapped \in SUBSET Chunks
    /\ lost \in SUBSET Chunks
    /\ link \in [Chunks -> Chunks \cup {Null}]
    /\ pc \in [Threads -> Labels]
    /\ chunk \in [Threads -> Chunks \cup {Null}]
    /\ next \in [Threads -> Chunks \cup {Null}]
    /\ listHead \in [Threads -> Chunks \cup {Null}]
    /\ cur \in [Threads -> Nat]
    /\ end \in [Threads -> {0, ChunkSize}]
    /\ request \in [Threads -> Allocations \cup {Null}]
    /\ objects \in [Threads -> SUBSET Objects]
    /\ owned \in [Threads -> SUBSET Chunks]

Init ==
    /\ freeList = {}
    /\ approx = 0
    /\ mapped = {}
    /\ lost = {}
    /\ link = [c \in Chunks |-> Null]
    /\ pc = [t \in Threads |-> "idle"]
    /\ chunk = [t \in Threads |-> Null]
    /\ next = [t \in Threads |-> Null]
    /\ listHead = [t \in Threads |-> Null]
    /\ cur = [t \in Threads |-> Header]
    /\ end = [t \in Threads |-> 0]
    /\ request = [t \in Threads |-> Null]
    /\ objects = [t \in Threads |-> {}]
    /\ owned = [t \in Threads |-> {}]

Go(t, from, to) == pc[t] = from /\ pc' = [pc EXCEPT ![t] = to]

\* AlignCurrentAddress.
AlignUp(x, align) == ((x + align - 1) \div align) * align

\* Hand out `size' bytes at offset p of chunk c.
Place(t, c, p, size) ==
    /\ cur' = [cur EXCEPT ![t] = p + size]
    /\ objects' = [objects EXCEPT ![t] =
                      @ \cup {[chunk |-> c, lo |-> p, hi |-> p + size]}]

\* Mutant: the padding is not counted.
Fits_Unaligned(t, r) == cur[t] + r.size <= end[t]

Fits(t, r) == AlignUp(cur[t], r.align) + r.size <= end[t]

(***************************************************************************)
(* TempArenaAllocator::Allocate and GlobalCodegenMemoryPool::              *)
(* GetMemoryChunk.                                                         *)
(***************************************************************************)
AllocateHere(t, r) ==
    /\ Go(t, "idle", "idle")
    /\ Fits(t, r)
    /\ Place(t, listHead[t], AlignUp(cur[t], r.align), r.size)
    /\ UNCHANGED <<pool, os, listHead, end, request, link, chunk, next, owned>>

AllocateChunk(t, r) ==
    /\ Go(t, "idle", "dequeue")
    /\ ~Fits(t, r)
    /\ cur' = [cur EXCEPT ![t] = AlignUp(@, r.align)]
    /\ request' = [request EXCEPT ![t] = r]
    /\ UNCHANGED <<pool, os, listHead, end, objects, link, chunk, next, owned>>

Take(t, c) ==
    /\ chunk' = [chunk EXCEPT ![t] = c]
    /\ owned' = [owned EXCEPT ![t] = @ \cup {c}]

Dequeue(t) ==
    /\ Go(t, "dequeue", "subtract")
    /\ \E c \in freeList : Take(t, c) /\ freeList' = freeList \ {c}
    /\ UNCHANGED <<approx, os, arena, link, next>>

\* try_dequeue may miss a chunk that is being enqueued.
DequeueNothing(t) ==
    /\ Go(t, "dequeue", "mmap")
    /\ UNCHANGED <<pool, os, arena, link, chunk, next, owned>>

Subtract(t) ==
    /\ Go(t, "subtract", "link")
    /\ approx' = approx - 1
    /\ UNCHANGED <<freeList, os, arena, link, chunk, next, owned>>

\* Without a chunk left to map the process aborts: nothing follows.
Mmap(t) ==
    /\ Go(t, "mmap", "link")
    /\ \E c \in Chunks \ mapped : Take(t, c) /\ mapped' = mapped \cup {c}
    /\ UNCHANGED <<pool, lost, arena, link, next>>

\* The locals of a call that returned are gone.
Forget(t) ==
    /\ chunk' = [chunk EXCEPT ![t] = Null]
    /\ request' = [request EXCEPT ![t] = Null]

\* GetNewMemoryChunk prepends the chunk and the allocation is made in it.
Link(t) ==
    /\ Go(t, "link", "idle")
    /\ link' = [link EXCEPT ![chunk[t]] = listHead[t]]
    /\ listHead' = [listHead EXCEPT ![t] = chunk[t]]
    /\ end' = [end EXCEPT ![t] = ChunkSize]
    /\ Place(t, chunk[t], AlignUp(Header, request[t].align), request[t].size)
    /\ Forget(t)
    /\ UNCHANGED <<pool, os, next, owned>>

(***************************************************************************)
(* FreeAllMemoryChunks (the destructor and Reset) and FreeMemoryChunk.     *)
(***************************************************************************)
Reset(t) ==
    /\ Go(t, "idle", "unlink")
    /\ objects' = [objects EXCEPT ![t] = {}]
    /\ UNCHANGED <<pool, os, listHead, cur, end, request, link, chunk, next,
                   owned>>

\* The link is read before the chunk is handed to the pool.
Unlink(t) ==
    /\ listHead[t] # Null
    /\ Go(t, "unlink", "load")
    /\ chunk' = [chunk EXCEPT ![t] = listHead[t]]
    /\ next' = [next EXCEPT ![t] = link[listHead[t]]]
    /\ UNCHANGED <<pool, os, arena, link, owned>>

UnlinkDone(t) ==
    /\ listHead[t] = Null
    /\ Go(t, "unlink", "idle")
    /\ cur' = [cur EXCEPT ![t] = Header]
    /\ end' = [end EXCEPT ![t] = 0]
    /\ Forget(t)
    /\ next' = [next EXCEPT ![t] = Null]
    /\ UNCHANGED <<pool, os, listHead, objects, link, owned>>

RoomInPool == approx <= MaxChunks

Load(t) ==
    /\ \/ RoomInPool /\ Go(t, "load", "enqueue")
       \/ ~RoomInPool /\ Go(t, "load", "munmap")
    /\ UNCHANGED <<pool, os, arena, link, chunk, next, owned>>

GiveUp(t) == owned' = [owned EXCEPT ![t] = @ \ {chunk[t]}]

Enqueue(t) ==
    /\ Go(t, "enqueue", "add")
    /\ freeList' = freeList \cup {chunk[t]}
    /\ GiveUp(t)
    /\ UNCHANGED <<approx, os, arena, link, chunk, next>>

\* Mutant: the link is read after the chunk was handed over.
Advance_Late(t) == listHead' = [listHead EXCEPT ![t] = link[chunk[t]]]
\* Mutant: the list head stays.
Advance_Not(t) == UNCHANGED listHead

Advance(t) == listHead' = [listHead EXCEPT ![t] = next[t]]

\* Mutant: the result of enqueue is ignored.
EnqueueFails_Ignored(t) ==
    /\ Go(t, "enqueue", "add")
    /\ UNCHANGED <<pool, os, arena, link, chunk, next, owned>>

\* Mutant: the chunk is dropped.
EnqueueFails_Dropped(t) ==
    /\ Go(t, "enqueue", "unlink")
    /\ GiveUp(t)
    /\ Advance(t)
    /\ UNCHANGED <<pool, os, cur, end, request, objects, link, chunk, next>>

\* enqueue returns false when it runs out of memory.
EnqueueFails(t) ==
    /\ Go(t, "enqueue", "munmap")
    /\ UNCHANGED <<pool, os, arena, link, chunk, next, owned>>

\* Mutant: the chunk is not counted.
Add_Uncounted(t) ==
    /\ Go(t, "add", "unlink")
    /\ Advance(t)
    /\ UNCHANGED <<pool, os, cur, end, request, objects, link, chunk,
                   next, owned>>

\* Mutant: the return after the fetch_add is missing.
Add_FallsThrough(t) ==
    /\ Go(t, "add", "munmap")
    /\ approx' = approx + 1
    /\ UNCHANGED <<freeList, os, arena, link, chunk, next, owned>>

Add(t) ==
    /\ Go(t, "add", "unlink")
    /\ approx' = approx + 1
    /\ Advance(t)
    /\ UNCHANGED <<freeList, os, cur, end, request, objects, link, chunk,
                   next, owned>>

\* A munmap that fails is reported and the chunk forgotten.
Munmap(t) ==
    /\ Go(t, "munmap", "unlink")
    /\ \/ mapped' = mapped \ {chunk[t]} /\ UNCHANGED lost
       \/ lost' = lost \cup {chunk[t]} /\ UNCHANGED mapped
    /\ GiveUp(t)
    /\ Advance(t)
    /\ UNCHANGED <<pool, cur, end, request, objects, link, chunk, next>>

Free(t) ==
    \/ Unlink(t) \/ UnlinkDone(t) \/ Load(t)
    \/ Enqueue(t) \/ EnqueueFails(t) \/ Add(t) \/ Munmap(t)

Get(t) ==
    \/ Dequeue(t) \/ DequeueNothing(t) \/ Subtract(t) \/ Mmap(t) \/ Link(t)

Thread(t) ==
    \/ \E r \in Allocations : AllocateHere(t, r) \/ AllocateChunk(t, r)
    \/ Reset(t) \/ Get(t) \/ Free(t)

Next == \E t \in Threads : Thread(t)

\* A thread that started to free its chunks is scheduled until it is done.
Fairness == \A t \in Threads : WF_vars(Free(t))

Spec == Init /\ [][Next]_vars /\ Fairness

-----------------------------------------------------------------------------
(***************************************************************************)
(* Properties.                                                             *)
(***************************************************************************)
At(l) == {t \in Threads : pc[t] = l}

\* A chunk is never in two hands: no two arenas share one, and none that is
\* in the pool, or was given back to the system, is still in an arena
\* (FreeMemoryChunk hands it over before the arena has moved its list head).
ExclusiveChunks ==
    /\ \A t, u \in Threads : t # u => owned[t] \cap owned[u] = {}
    /\ \A t \in Threads :
          owned[t] \subseteq mapped /\ owned[t] \cap (freeList \cup lost) = {}
    /\ freeList \subseteq mapped \ lost /\ lost \subseteq mapped

\* The counter is off by exactly the threads between the queue operation and
\* the counter update (global_codegen_memory_pool.h:28-31, 55-70), so it is
\* exact, and not negative, whenever no thread is between them.
CounterTracksQueue ==
    approx = Cardinality(freeList)
                + Cardinality(At("subtract")) - Cardinality(At("add"))

\* The pool overshoots its threshold by at most one chunk per thread.
PoolBounded == Cardinality(freeList) <= MaxChunks + Cardinality(Threads)

Freeing(t) == pc[t] \in {"load", "enqueue", "add", "munmap"}
Holding(t) == pc[t] \in {"link", "subtract", "load", "enqueue", "munmap"}
Transit(t) == IF Holding(t) THEN {chunk[t]} ELSE {}
First(t)   == IF Freeing(t) THEN next[t] ELSE listHead[t]

\* The chunks linked from c on.
Chain(c) ==
    LET reach[n \in 0 .. Cardinality(Chunks)] ==
            IF n = 0 THEN {c} \ {Null}
            ELSE reach[n - 1] \cup ({link[d] : d \in reach[n - 1]} \ {Null})
    IN  reach[Cardinality(Chunks)]

\* Every mapped chunk is in the pool, reported lost, being got or freed, or
\* reached from the head of an arena's list: no path through GetMemoryChunk,
\* FreeMemoryChunk and the links of the arenas (codegen_arena_allocator.h:
\* 69-85) drops one.
NothingLeaks ==
    mapped = freeList \cup lost
                \cup UNION {Chain(First(t)) \cup Transit(t) : t \in Threads}

\* Live objects lie inside chunks their arena owns, behind the list link,
\* and no two of them overlap, across all arenas
\* (codegen_arena_allocator.h:31-48).
ObjectsIntact ==
    /\ \A t \in Threads : \A o \in objects[t] :
          o.chunk \in owned[t] /\ Header <= o.lo /\ o.hi <= ChunkSize
    /\ \A t, u \in Threads : \A o \in objects[t], p \in objects[u] :
          t # u \/ o # p =>
              o.chunk # p.chunk \/ o.hi <= p.lo \/ p.hi <= o.lo

\* A reset returns all chunks and leaves the arena ready for use.
ResetCompletes ==
    \A t \in Threads : pc[t] = "unlink" ~> pc[t] = "idle" /\ owned[t] = {}

(***************************************************************************)
(* The inductive invariant behind the first three properties.              *)
(***************************************************************************)
Linked(t) == owned[t] \ Transit(t)

\* What the locals hold where they are used: the request that waits for a
\* chunk, the chunk in transit, the chunk an arena allocates from.
Getting(t) == pc[t] \in {"dequeue", "subtract", "mmap", "link"}
LocalsSet ==
    \A t \in Threads :
        /\ Getting(t) => request[t] \in Allocations
        /\ Holding(t) => chunk[t] \in Chunks
        /\ pc[t] = "idle" /\ end[t] # 0 => listHead[t] # Null
        /\ Getting(t) /\ end[t] # 0 => listHead[t] # Null

\* The chunk a thread is getting or freeing is its own.
TransitOwned == \A t \in Threads : Transit(t) \subseteq owned[t]

\* Cutting the first chunk off a list leaves a list: the links stay among
\* the linked chunks, none leads back to the first, no two meet.
WellLinked(t) ==
    /\ First(t) \in Linked(t) \cup {Null}
    /\ \A c \in Linked(t) :
          /\ link[c] \in Linked(t) \cup {Null}
          /\ link[c] # Null => link[c] # First(t)
          /\ \A d \in Linked(t) : c # d /\ link[c] = link[d] => link[c] = Null

ListShape == \A t \in Threads : WellLinked(t)

\* Chunks about to be enqueued count as enqueued.
PoolSlack ==
    Cardinality(freeList) + Cardinality(At("enqueue"))
        <= MaxChunks + Cardinality(Threads)

\* What every step of every thread preserves: the ownership of chunks, the
\* shape of the lists, the exact error of the counter and the pool's slack
\* (global_codegen_memory_pool.h, codegen_arena_allocator.h:51-85).
PoolInvariant ==
    /\ TypeOK
    /\ LocalsSet
    /\ ExclusiveChunks
    /\ TransitOwned
    /\ ListShape
    /\ CounterTracksQueue
    /\ PoolSlack
=============================================================================
