----------------------- MODULE CodegenMemoryPoolProofs -----------------------
(***************************************************************************)
(* Proofs about CodegenMemoryPool, for every number of threads, every set  *)
(* of chunks, every threshold and every geometry of a chunk.               *)
(***************************************************************************)
EXTENDS CodegenMemoryPool, FiniteSetTheorems, TLAPS

USE ThreadsAssumption, ChunksAssumption, MaxChunksAssumption,
    SizesAssumption, AllocationsAssumption

\* AlignCurrentAddress (codegen_arena_allocator.h:61-67) keeps offsets
\* natural numbers.
LEMMA AlignUpType ==
    ASSUME NEW x \in Nat, NEW align \in Nat \ {0}
    PROVE  AlignUp(x, align) \in Nat
<1>1. x + align - 1 \in Nat
  OBVIOUS
<1>2. (x + align - 1) \div align \in Nat
  BY <1>1
<1>3. QED
  BY <1>2 DEF AlignUp

\* Requests are positive numbers.
LEMMA RequestType ==
    ASSUME NEW r \in Allocations
    PROVE  r.align \in Nat \ {0} /\ r.size \in Nat \ {0}
OBVIOUS

\* The steps of GetMemoryChunk, FreeMemoryChunk and the arena methods keep
\* every variable within its type and set the locals before they use them.
LEMMA TypeStep ==
    ASSUME TypeOK, LocalsSet, [Next]_vars
    PROVE  TypeOK' /\ LocalsSet'
<1> USE DEF TypeOK, LocalsSet, Getting, Holding, Labels, Objects
<1>1. CASE UNCHANGED vars
  BY <1>1 DEF vars, pool, os, arena
<1>2. ASSUME NEW t \in Threads, Thread(t)
      PROVE  TypeOK' /\ LocalsSet'
  <2> USE DEF Go, pool, os, arena
  <2>1. ASSUME NEW r \in Allocations, AllocateHere(t, r)
        PROVE  TypeOK' /\ LocalsSet'
    <3>1. PICK p \in Nat : p = AlignUp(cur[t], r.align)
      BY AlignUpType, RequestType
    <3>2. r.size \in Nat \ {0} /\ p + r.size \in Nat
      BY <3>1, RequestType
    <3>3. p + r.size <= end[t] /\ pc[t] = "idle"
      BY <2>1, <3>1 DEF AllocateHere, Fits
    <3>4. end[t] # 0
      BY <3>2, <3>3
    <3>5. listHead[t] \in Chunks
      BY <3>3, <3>4
    <3>6. QED
      BY <2>1, <3>1, <3>2, <3>5 DEF AllocateHere, Place
  <2>2. ASSUME NEW r \in Allocations, AllocateChunk(t, r)
        PROVE  TypeOK' /\ LocalsSet'
    <3>1. PICK p \in Nat : p = AlignUp(cur[t], r.align)
      BY AlignUpType, RequestType
    <3>2. TypeOK'
      BY <2>2, <3>1 DEF AllocateChunk
    <3>3. LocalsSet'
      BY <2>2 DEF AllocateChunk
    <3>4. QED
      BY <3>2, <3>3
  <2>3. CASE Reset(t)
    BY <2>3 DEF Reset
  <2>4. CASE Dequeue(t)
    BY <2>4 DEF Dequeue, Take
  <2>5. CASE DequeueNothing(t)
    BY <2>5 DEF DequeueNothing
  <2>6. CASE Subtract(t)
    BY <2>6 DEF Subtract
  <2>7. CASE Mmap(t)
    BY <2>7 DEF Mmap, Take
  <2>8. CASE Link(t)
    <3>1. chunk[t] \in Chunks
      BY <2>8 DEF Link
    <3>2. PICK r \in Allocations : r = request[t]
      BY <2>8 DEF Link
    <3>3. PICK p \in Nat : p = AlignUp(Header, r.align)
      BY AlignUpType, RequestType
    <3>4. p + r.size \in Nat
      BY RequestType
    <3>5. QED
      BY <2>8, <3>1, <3>2, <3>3, <3>4 DEF Link, Place, Forget
  <2>9. CASE Unlink(t)
    BY <2>9 DEF Unlink
  <2>10. CASE UnlinkDone(t)
    BY <2>10 DEF UnlinkDone, Forget
  <2>11. CASE Load(t)
    BY <2>11 DEF Load
  <2>12. CASE Enqueue(t)
    BY <2>12 DEF Enqueue, GiveUp
  <2>13. CASE EnqueueFails(t)
    BY <2>13 DEF EnqueueFails
  <2>14. CASE Add(t)
    BY <2>14 DEF Add, Advance
  <2>15. CASE Munmap(t)
    BY <2>15 DEF Munmap, GiveUp, Advance
  <2>16. QED
    BY <1>2, <2>1, <2>2, <2>3, <2>4, <2>5, <2>6, <2>7, <2>8, <2>9, <2>10,
       <2>11, <2>12, <2>13, <2>14, <2>15 DEF Thread, Get, Free
<1>3. QED
  BY <1>1, <1>2 DEF Next

\* What ownership needs of a state.
Owning == TypeOK /\ LocalsSet /\ ExclusiveChunks /\ TransitOwned /\ ListShape

\* A step of t leaves the lists of the other threads alone: it writes only
\* the link of a chunk it owns (codegen_arena_allocator.h:69-73).
LEMMA OthersLinked ==
    ASSUME NEW t \in Threads, NEW u \in Threads \ {t},
           Owning, WellLinked(u),
           owned'[u] = owned[u], pc'[u] = pc[u], chunk'[u] = chunk[u],
           next'[u] = next[u], listHead'[u] = listHead[u],
           \A c \in owned[u] : link'[c] = link[c]
    PROVE  WellLinked(u)'
BY DEF Owning, WellLinked, First, Linked, Transit, Holding, Freeing

\* Every step keeps each chunk in one hand, and each list a list.
LEMMA OwningStep ==
    ASSUME Owning, [Next]_vars
    PROVE  ExclusiveChunks' /\ TransitOwned' /\ ListShape'
<1> USE DEF Owning, TypeOK, LocalsSet, Labels
<1>1. CASE UNCHANGED vars
  BY <1>1 DEF vars, pool, os, arena, ExclusiveChunks, TransitOwned, ListShape,
              WellLinked, First, Linked, Transit, Holding, Freeing
<1>2. ASSUME NEW t \in Threads, Thread(t)
      PROVE  ExclusiveChunks' /\ TransitOwned' /\ ListShape'
  <2> USE DEF Go, pool, os, arena, Getting, Holding, Freeing
  <2>0. /\ TransitOwned
        /\ WellLinked(t)
        /\ \A u \in Threads \ {t} : WellLinked(u)
    BY DEF ListShape
  <2>1. CASE \/ \E r \in Allocations : AllocateHere(t, r) \/ AllocateChunk(t, r)
             \/ Reset(t) \/ DequeueNothing(t) \/ Subtract(t)
             \/ Load(t) \/ EnqueueFails(t)
    <3>1. /\ UNCHANGED <<owned, link, listHead, next, chunk, mapped, lost, freeList>>
          /\ pc' \in [Threads -> Labels]
          /\ \A u \in Threads : /\ Holding(u)' = Holding(u)
                                /\ Freeing(u)' = Freeing(u)
      BY <2>1 DEF AllocateHere, AllocateChunk, Reset, DequeueNothing, Subtract,
                  Load, EnqueueFails
    <3>2. QED
      BY <3>1, <2>0 DEF ExclusiveChunks, TransitOwned, ListShape, WellLinked,
                        First, Linked, Transit
  <2>2. CASE Dequeue(t)
    <3> USE <2>2 DEF Dequeue, Take
    <3>1. PICK c \in freeList : Take(t, c) /\ freeList' = freeList \ {c}
      OBVIOUS
    <3>2. c \notin owned[t] /\ \A u \in Threads \ {t} : c \notin owned[u]
      BY <3>1 DEF ExclusiveChunks
    <3>3. ExclusiveChunks'
      BY <3>1, <3>2 DEF ExclusiveChunks
    <3>4. TransitOwned'
      BY <3>1 DEF TransitOwned, Transit
    <3>5. WellLinked(t)'
      BY <3>1, <3>2, <2>0 DEF WellLinked, First, Linked, Transit
    <3>6. ASSUME NEW u \in Threads \ {t} PROVE WellLinked(u)'
      BY <3>1, <2>0, OthersLinked
    <3>7. QED
      BY <3>3, <3>4, <3>5, <3>6 DEF ListShape
  <2>3. CASE Mmap(t)
    <3> USE <2>3 DEF Mmap, Take
    <3>1. PICK c \in Chunks \ mapped : Take(t, c) /\ mapped' = mapped \cup {c}
      OBVIOUS
    <3>2. c \notin owned[t] /\ \A u \in Threads \ {t} : c \notin owned[u]
      BY <3>1 DEF ExclusiveChunks
    <3>3. ExclusiveChunks'
      BY <3>1, <3>2 DEF ExclusiveChunks
    <3>4. TransitOwned'
      BY <3>1 DEF TransitOwned, Transit
    <3>5. WellLinked(t)'
      BY <3>1, <3>2, <2>0 DEF WellLinked, First, Linked, Transit
    <3>6. ASSUME NEW u \in Threads \ {t} PROVE WellLinked(u)'
      BY <3>1, <2>0, OthersLinked
    <3>7. QED
      BY <3>3, <3>4, <3>5, <3>6 DEF ListShape
  <2>4. CASE Link(t)
    <3> USE <2>4 DEF Link, Place, Forget
    <3>1. chunk[t] \in Chunks /\ chunk[t] \in owned[t] /\ chunk[t] \notin Linked(t)
      BY <2>0 DEF TransitOwned, Transit, Linked
    <3>2. ExclusiveChunks'
      BY DEF ExclusiveChunks
    <3>3. TransitOwned'
      BY <2>0 DEF TransitOwned, Transit
    <3>4. WellLinked(t)'
      BY <3>1, <2>0 DEF WellLinked, First, Linked, Transit
    <3>5. ASSUME NEW u \in Threads \ {t} PROVE WellLinked(u)'
      <4>1. \A c \in owned[u] : link'[c] = link[c]
        BY <3>1 DEF ExclusiveChunks
      <4>2. QED
        BY <4>1, <2>0, OthersLinked
    <3>6. QED
      BY <3>2, <3>3, <3>4, <3>5 DEF ListShape
  <2>5. CASE Unlink(t)
    <3> USE <2>5 DEF Unlink
    <3>1. listHead[t] \in owned[t] /\ Linked(t) = owned[t]
      BY <2>0 DEF WellLinked, First, Linked, Transit
    <3>2. ExclusiveChunks'
      BY DEF ExclusiveChunks
    <3>3. TransitOwned'
      BY <3>1, <2>0 DEF TransitOwned, Transit
    <3>4. WellLinked(t)'
      BY <3>1, <2>0 DEF WellLinked, First, Linked, Transit
    <3>5. ASSUME NEW u \in Threads \ {t} PROVE WellLinked(u)'
      BY <2>0, OthersLinked
    <3>6. QED
      BY <3>2, <3>3, <3>4, <3>5 DEF ListShape
  <2>6. CASE Enqueue(t)
    <3> USE <2>6 DEF Enqueue, GiveUp
    <3>1. chunk[t] \in owned[t]
      BY <2>0 DEF TransitOwned, Transit
    <3>2. ExclusiveChunks'
      BY <3>1 DEF ExclusiveChunks
    <3>3. TransitOwned'
      BY <2>0 DEF TransitOwned, Transit
    <3>4. WellLinked(t)'
      BY <3>1, <2>0 DEF WellLinked, First, Linked, Transit
    <3>5. ASSUME NEW u \in Threads \ {t} PROVE WellLinked(u)'
      BY <2>0, OthersLinked
    <3>6. QED
      BY <3>2, <3>3, <3>4, <3>5 DEF ListShape
  <2>7. CASE Add(t)
    <3> USE <2>7 DEF Add, Advance
    <3>1. ExclusiveChunks'
      BY DEF ExclusiveChunks
    <3>2. TransitOwned'
      BY <2>0 DEF TransitOwned, Transit
    <3>3. WellLinked(t)'
      BY <2>0 DEF WellLinked, First, Linked, Transit
    <3>4. ASSUME NEW u \in Threads \ {t} PROVE WellLinked(u)'
      BY <2>0, OthersLinked
    <3>5. QED
      BY <3>1, <3>2, <3>3, <3>4 DEF ListShape
  <2>8. CASE Munmap(t)
    <3> USE <2>8 DEF Munmap, GiveUp, Advance
    <3>1. chunk[t] \in owned[t]
      BY <2>0 DEF TransitOwned, Transit
    <3>2. ExclusiveChunks'
      BY <3>1 DEF ExclusiveChunks
    <3>3. TransitOwned'
      BY <2>0 DEF TransitOwned, Transit
    <3>4. WellLinked(t)'
      BY <3>1, <2>0 DEF WellLinked, First, Linked, Transit
    <3>5. ASSUME NEW u \in Threads \ {t} PROVE WellLinked(u)'
      BY <2>0, OthersLinked
    <3>6. QED
      BY <3>2, <3>3, <3>4, <3>5 DEF ListShape
  <2>9. CASE UnlinkDone(t)
    <3> USE <2>9 DEF UnlinkDone, Forget
    <3>1. ExclusiveChunks'
      BY DEF ExclusiveChunks
    <3>2. TransitOwned'
      BY <2>0 DEF TransitOwned, Transit
    <3>3. WellLinked(t)'
      BY <2>0 DEF WellLinked, First, Linked, Transit
    <3>4. ASSUME NEW u \in Threads \ {t} PROVE WellLinked(u)'
      BY <2>0, OthersLinked
    <3>5. QED
      BY <3>1, <3>2, <3>3, <3>4 DEF ListShape
  <2>10. QED
    BY <1>2, <2>1, <2>2, <2>3, <2>4, <2>5, <2>6, <2>7, <2>8, <2>9
       DEF Thread, Get, Free
<1>3. QED
  BY <1>1, <1>2 DEF Next

\* Moving one thread from one program point to another.
LEMMA Moved ==
    ASSUME TypeOK, NEW t \in Threads, NEW l \in Labels, NEW m \in Labels \ {l},
           Go(t, l, m)
    PROVE  /\ Cardinality(At(l))' = Cardinality(At(l)) - 1
           /\ Cardinality(At(m))' = Cardinality(At(m)) + 1
           /\ \A k \in Labels \ {l, m} : At(k)' = At(k)
<1> USE DEF TypeOK, Go
<1>1. \A k : IsFiniteSet(At(k))
  BY FS_Subset DEF At
<1>2. t \in At(l) /\ At(l)' = At(l) \ {t}
  BY DEF At
<1>3. t \notin At(m) /\ At(m)' = At(m) \cup {t}
  BY DEF At
<1>4. \A k \in Labels \ {l, m} : At(k)' = At(k)
  BY DEF At
<1>5. Cardinality(At(l) \ {t}) = Cardinality(At(l)) - 1
  <2>1. IsFiniteSet(At(l)) /\ t \in At(l)
    BY <1>1, <1>2
  <2>2. QED
    BY <2>1, FS_RemoveElement
<1>6. Cardinality(At(m) \cup {t}) = Cardinality(At(m)) + 1
  BY <1>1, <1>3, FS_AddElement
<1>7. Cardinality(At(l))' = Cardinality(At(l)')
  OBVIOUS
<1>8. Cardinality(At(m))' = Cardinality(At(m)')
  OBVIOUS
<1>9. QED
  BY <1>2, <1>3, <1>4, <1>5, <1>6, <1>7, <1>8

\* The counter's error and the pool's slack survive every step.
LEMMA CountingStep ==
    ASSUME Owning, CounterTracksQueue, PoolSlack, [Next]_vars
    PROVE  CounterTracksQueue' /\ PoolSlack'
<1> USE DEF Owning, CounterTracksQueue, PoolSlack
<1>1. CASE UNCHANGED vars
  BY <1>1 DEF vars, pool, os, arena, At
<1>2. ASSUME NEW t \in Threads, Thread(t)
      PROVE  CounterTracksQueue' /\ PoolSlack'
  <2> USE DEF pool, os, arena
  <2>1. /\ IsFiniteSet(freeList)
        /\ Cardinality(freeList) \in Nat
        /\ \A k \in Labels : /\ IsFiniteSet(At(k))
                             /\ Cardinality(At(k)) \in Nat
        /\ Cardinality(Threads) \in Nat
        /\ approx \in Int
    BY FS_Subset, FS_CardinalityType DEF At, TypeOK
  <2>2. CASE \/ \E r \in Allocations : AllocateHere(t, r) \/ AllocateChunk(t, r)
             \/ Reset(t) \/ DequeueNothing(t) \/ Mmap(t) \/ Link(t)
             \/ Unlink(t) \/ UnlinkDone(t) \/ Munmap(t)
             \/ Load(t) /\ Go(t, "load", "munmap")
    <3>1. UNCHANGED <<freeList, approx>>
      BY <2>2 DEF AllocateHere, AllocateChunk, Reset, DequeueNothing, Mmap,
                  Link, Unlink, UnlinkDone, Munmap, Load
    <3>2. \A k \in {"subtract", "add", "enqueue"} : At(k)' = At(k)
      BY <2>2 DEF AllocateHere, AllocateChunk, Reset, DequeueNothing, Mmap,
                  Link, Unlink, UnlinkDone, Munmap, Go, At, TypeOK, Labels
    <3>3. QED
      BY <3>1, <3>2
  <2>3. CASE Dequeue(t)
    <3> USE <2>3 DEF Dequeue
    <3>1. PICK c \in freeList : freeList' = freeList \ {c}
      OBVIOUS
    <3>2. Cardinality(freeList') = Cardinality(freeList) - 1
      BY <3>1, <2>1, FS_RemoveElement
    <3>3. /\ Cardinality(At("subtract"))' = Cardinality(At("subtract")) + 1
          /\ At("add")' = At("add") /\ At("enqueue")' = At("enqueue")
      BY Moved DEF Labels
    <3>4. QED
      BY <2>1, <3>2, <3>3 DEF Labels
  <2>4. CASE Subtract(t)
    <3>1. /\ Cardinality(At("subtract"))' = Cardinality(At("subtract")) - 1
          /\ At("add")' = At("add") /\ At("enqueue")' = At("enqueue")
      BY <2>4, Moved DEF Subtract, Labels
    <3>2. QED
      BY <2>1, <2>4, <3>1 DEF Subtract, Labels
  <2>5. CASE Load(t) /\ Go(t, "load", "enqueue") /\ RoomInPool
    <3>1. /\ Cardinality(At("enqueue"))' = Cardinality(At("enqueue")) + 1
          /\ At("add")' = At("add") /\ At("subtract")' = At("subtract")
      BY <2>5, Moved DEF Labels
    \* t itself is in neither set, so one place is left for it.
    <3>2. Cardinality(At("enqueue")) + Cardinality(At("add")) + 1
             <= Cardinality(Threads)
      <4>1. t \notin At("enqueue") \cup At("add")
        BY <2>5 DEF At, Go
      <4>2. Cardinality(At("enqueue") \cup At("add"))
               = Cardinality(At("enqueue")) + Cardinality(At("add"))
        <5>1. At("enqueue") \cap At("add") = {}
          BY DEF At
        <5>2. Cardinality({}) = 0
          BY FS_EmptySet
        <5>3. IsFiniteSet(At("enqueue")) /\ IsFiniteSet(At("add"))
          BY <2>1 DEF Labels
        <5>4. Cardinality(At("enqueue") \cup At("add"))
                 = Cardinality(At("enqueue")) + Cardinality(At("add"))
                      - Cardinality(At("enqueue") \cap At("add"))
          BY <5>3, FS_Union
        <5>5. Cardinality(At("enqueue")) \in Nat /\ Cardinality(At("add")) \in Nat
          BY <2>1 DEF Labels
        <5>6. Cardinality(At("enqueue") \cap At("add")) = 0
          BY <5>1, <5>2, Zenon
        <5>7. QED
          BY <5>4, <5>5, <5>6
      <4>3. LET S == At("enqueue") \cup At("add") \cup {t}
            IN  Cardinality(S) <= Cardinality(Threads)
        BY FS_Subset DEF At
      <4>4. IsFiniteSet(At("enqueue") \cup At("add"))
        BY FS_Subset DEF At
      <4>5. Cardinality(At("enqueue") \cup At("add") \cup {t})
               = Cardinality(At("enqueue") \cup At("add")) + 1
        BY <4>1, <4>4, FS_AddElement
      <4>6. QED
        BY <4>2, <4>3, <4>5
    <3>3. Cardinality(freeList) <= MaxChunks + Cardinality(At("add"))
      BY <2>1, <2>5 DEF RoomInPool, Labels
    <3>4. QED
      BY <2>1, <2>5, <3>1, <3>2, <3>3 DEF Load, Labels
  <2>6. CASE Enqueue(t)
    <3>1. chunk[t] \notin freeList
      BY <2>6 DEF Enqueue, Go, TransitOwned, Transit, Holding, ExclusiveChunks
    <3>2. Cardinality(freeList') = Cardinality(freeList) + 1
      BY <2>1, <2>6, <3>1, FS_AddElement DEF Enqueue
    <3>3. /\ Cardinality(At("enqueue"))' = Cardinality(At("enqueue")) - 1
          /\ Cardinality(At("add"))' = Cardinality(At("add")) + 1
          /\ At("subtract")' = At("subtract")
      BY <2>6, Moved DEF Enqueue, Labels
    <3>4. QED
      BY <2>1, <2>6, <3>2, <3>3 DEF Enqueue, Labels
  <2>7. CASE EnqueueFails(t)
    <3>1. /\ Cardinality(At("enqueue"))' = Cardinality(At("enqueue")) - 1
          /\ At("add")' = At("add") /\ At("subtract")' = At("subtract")
      BY <2>7, Moved DEF EnqueueFails, Labels
    <3>2. QED
      BY <2>1, <2>7, <3>1 DEF EnqueueFails, Labels
  <2>8. CASE Add(t)
    <3>1. /\ Cardinality(At("add"))' = Cardinality(At("add")) - 1
          /\ At("enqueue")' = At("enqueue") /\ At("subtract")' = At("subtract")
      BY <2>8, Moved DEF Add, Labels
    <3>2. QED
      BY <2>1, <2>8, <3>1 DEF Add, Labels
  <2>9. QED
    BY <1>2, <2>2, <2>3, <2>4, <2>5, <2>6, <2>7, <2>8 DEF Thread, Get, Free, Load
<1>3. QED
  BY <1>1, <1>2 DEF Next

\* The pool and the arenas start empty.
LEMMA PoolInit == Init => PoolInvariant
<1> SUFFICES ASSUME Init PROVE PoolInvariant
  OBVIOUS
<1> USE DEF Init
<1>1. TypeOK
  BY DEF TypeOK, Labels
<1>2. LocalsSet /\ ExclusiveChunks /\ TransitOwned /\ ListShape
  BY DEF LocalsSet, Getting, Holding, ExclusiveChunks, TransitOwned, Transit,
         ListShape, WellLinked, Linked, First, Freeing
<1>3. /\ At("subtract") = {} /\ At("add") = {} /\ At("enqueue") = {}
      /\ Cardinality({}) = 0 /\ Cardinality(Threads) \in Nat
  BY FS_EmptySet, FS_CardinalityType DEF At
<1>4. /\ Cardinality(freeList) = 0 /\ Cardinality(At("enqueue")) = 0
      /\ Cardinality(At("subtract")) = 0 /\ Cardinality(At("add")) = 0
  BY <1>3, Zenon
<1>5. CounterTracksQueue
  BY <1>4 DEF CounterTracksQueue
<1>6. PoolSlack
  BY <1>3, <1>4 DEF PoolSlack
<1>7. QED
  BY <1>1, <1>2, <1>5, <1>6 DEF PoolInvariant

\* The invariant of the pool holds in every state, for any number of threads,
\* any set of chunks, any threshold and any geometry.
THEOREM PoolInvariantHolds == Spec => []PoolInvariant
<1>1. Init => PoolInvariant
  BY PoolInit
<1>2. PoolInvariant /\ [Next]_vars => PoolInvariant'
  BY TypeStep, OwningStep, CountingStep DEF PoolInvariant, Owning
<1>3. QED
  BY <1>1, <1>2, PTL DEF Spec

\* No chunk is ever in two hands (global_codegen_memory_pool.h,
\* codegen_arena_allocator.h:75-85).
THEOREM ExclusiveChunksHolds == Spec => []ExclusiveChunks
<1>1. PoolInvariant => ExclusiveChunks
  BY DEF PoolInvariant
<1>2. QED
  BY <1>1, PoolInvariantHolds, PTL

\* m_freeListSizeApproximation is wrong by exactly the operations in flight.
THEOREM CounterHolds == Spec => []CounterTracksQueue
<1>1. PoolInvariant => CounterTracksQueue
  BY DEF PoolInvariant
<1>2. QED
  BY <1>1, PoolInvariantHolds, PTL

\* The pool never keeps more than its threshold and one chunk per thread.
THEOREM PoolBoundedHolds == Spec => []PoolBounded
<1>1. PoolInvariant => PoolBounded
  BY FS_Subset, FS_CardinalityType
     DEF PoolInvariant, PoolSlack, PoolBounded, At, TypeOK
<1>2. QED
  BY <1>1, PoolInvariantHolds, PTL
(***************************************************************************)
(* The objects of the arenas.                                              *)
(***************************************************************************)
\* AlignCurrentAddress never moves back, and not past an aligned address.
LEMMA AlignUpBounds ==
    ASSUME NEW x \in Nat, NEW align \in Nat \ {0}
    PROVE  /\ AlignUp(x, align) \in Nat
           /\ x <= AlignUp(x, align)
           /\ \A m \in Nat : x <= m /\ m % align = 0 => AlignUp(x, align) <= m
<1> DEFINE q == (x + align - 1) \div align
<1>1. q \in Nat
  OBVIOUS
<1>2. /\ q * align <= x + align - 1
      /\ x + align - 1 < q * align + align
  OBVIOUS
<1>3. AlignUp(x, align) = q * align
  BY DEF AlignUp
<1> HIDE DEF q
<1>4. q * align \in Nat
  BY <1>1
<1>5. ASSUME NEW m \in Nat, x <= m, m % align = 0
      PROVE  q * align <= m
  <2>1. PICK k \in Nat : m = k * align
    <3>1. m \div align \in Nat /\ m = (m \div align) * align
      BY <1>5
    <3>2. QED
      BY <3>1
  <2>2. CASE q <= k
    <3>1. PICK j \in Nat : k = q + j
      BY <1>1, <2>2
    <3>2. k * align = q * align + j * align /\ j * align \in Nat
      BY <1>1, <3>1
    <3>3. QED
      BY <1>4, <2>1, <3>2
  <2>3. CASE k < q
    <3>1. PICK j \in Nat : q = k + 1 + j
      BY <1>1, <2>3
    <3>2. /\ q * align = k * align + align + j * align
          /\ j * align \in Nat /\ k * align \in Nat
      BY <1>1, <3>1
    <3>3. FALSE
      BY <1>2, <1>4, <1>5, <2>1, <3>2
    <3>4. QED
      BY <3>3
  <2>4. QED
    BY <1>1, <2>1, <2>2, <2>3
<1>6. QED
  BY <1>2, <1>3, <1>4, <1>5

\* Where the objects of an arena are: in its list of chunks, behind the link,
\* one behind the other, those of the chunk that is being filled below the
\* current address.  An arena that frees its chunks has none.
Emptying(t) == pc[t] \in {"unlink", "load", "enqueue", "add", "munmap"}

Disjoint(o, p) == o.chunk # p.chunk \/ o.hi <= p.lo \/ p.hi <= o.lo

Inside(t, o) ==
    /\ o.chunk \in Linked(t)
    /\ Header <= o.lo /\ o.hi <= ChunkSize
    /\ o.chunk = listHead[t] => o.hi <= cur[t]

ArenaInvariant(t) ==
    /\ Header <= cur[t]
    /\ Emptying(t) => objects[t] = {}
    /\ \A o \in objects[t] : Inside(t, o)
    /\ \A o, p \in objects[t] : o # p => Disjoint(o, p)

ArenasInvariant == PoolInvariant /\ \A t \in Threads : ArenaInvariant(t)

\* Place() keeps the objects apart if the new one lies behind the others of
\* its chunk.
LEMMA PlaceKeeps ==
    ASSUME TypeOK, NEW t \in Threads, ArenaInvariant(t),
           NEW c \in Chunks, NEW p \in Nat, NEW size \in Nat,
           Place(t, c, p, size),
           Header <= p, p + size <= ChunkSize,
           c \in Linked(t)', listHead'[t] = c, ~Emptying(t)',
           Linked(t) \subseteq Linked(t)',
           \A o \in objects[t] : o.chunk = c => o.hi <= p
    PROVE  ArenaInvariant(t)'
<1> DEFINE new == [chunk |-> c, lo |-> p, hi |-> p + size]
<1>1. /\ cur'[t] = p + size
      /\ objects'[t] = objects[t] \cup {new}
  BY DEF Place, TypeOK
<1>2. new.chunk = c /\ new.lo = p /\ new.hi = p + size
  OBVIOUS
<1>3. \A o \in objects[t] : o \in Objects
  BY DEF TypeOK
<1> HIDE DEF new
<1>4. \A o \in objects[t] : o.hi \in Nat /\ o.lo \in Nat
  BY <1>3 DEF Objects
<1>5. Header <= cur'[t]
  BY <1>1
<1>6. ASSUME NEW o \in objects'[t] PROVE Inside(t, o)'
  <2>1. CASE o = new
    BY <1>1, <1>2, <2>1 DEF Inside
  <2>2. CASE o \in objects[t]
    <3>1. o.chunk = c => o.hi <= p + size
      BY <1>4, <2>2
    <3>2. QED
      BY <1>1, <2>2, <3>1 DEF ArenaInvariant, Inside
  <2>3. QED
    BY <1>1, <1>6, <2>1, <2>2
<1>7. ASSUME NEW o \in objects'[t], NEW q \in objects'[t], o # q
      PROVE  Disjoint(o, q)
  <2>1. CASE o \in objects[t] /\ q \in objects[t]
    BY <1>7, <2>1 DEF ArenaInvariant
  <2>2. CASE o = new /\ q \in objects[t]
    BY <1>2, <2>2 DEF Disjoint
  <2>3. CASE q = new /\ o \in objects[t]
    BY <1>2, <2>3 DEF Disjoint
  <2>4. QED
    BY <1>1, <1>7, <2>1, <2>2, <2>3
<1>8. QED
  BY <1>5, <1>6, <1>7 DEF ArenaInvariant, Disjoint

\* A step of a thread keeps the objects of its own arena in place.
LEMMA ArenaStep ==
    ASSUME PoolInvariant, NEW t \in Threads, ArenaInvariant(t), Thread(t)
    PROVE  ArenaInvariant(t)'
<1>1. TypeOK /\ LocalsSet /\ WellLinked(t) /\ Transit(t) \subseteq owned[t]
  BY DEF PoolInvariant, ListShape, TransitOwned
<1>2. ASSUME NEW r \in Allocations, AllocateHere(t, r)
      PROVE  ArenaInvariant(t)'
  <2>1. PICK p \in Nat : p = AlignUp(cur[t], r.align)
    BY <1>1, AlignUpType, RequestType DEF TypeOK
  <2>2. cur[t] \in Nat /\ cur[t] <= p
    BY <1>1, <2>1, AlignUpBounds, RequestType DEF TypeOK
  <2>3. r.size \in Nat \ {0}
    BY RequestType
  <2>4. /\ pc[t] = "idle" /\ pc'[t] = "idle" /\ p + r.size <= end[t]
        /\ Place(t, listHead[t], p, r.size)
        /\ UNCHANGED <<listHead, owned, chunk>>
    BY <1>1, <1>2, <2>1 DEF AllocateHere, Fits, Go, TypeOK, arena
  <2>5. end[t] = ChunkSize /\ listHead[t] # Null
    BY <1>1, <2>3, <2>4 DEF TypeOK, LocalsSet
  <2>6. Linked(t)' = Linked(t) /\ listHead[t] \in Linked(t)
    BY <1>1, <2>4, <2>5 DEF WellLinked, First, Freeing, Linked, Transit, Holding
  <2>7. listHead[t] \in Chunks
    BY <1>1, <2>5 DEF TypeOK
  <2>8. ~Emptying(t)'
    BY <2>4 DEF Emptying
  <2>9. \A o \in objects[t] : o \in Objects
    BY <1>1 DEF TypeOK
  <2>10. \A o \in objects[t] : o.chunk = listHead[t] => o.hi <= p
    <3>1. \A o \in objects[t] : o.hi \in Nat
      BY <2>9 DEF Objects
    <3>2. QED
      BY <2>2, <3>1 DEF ArenaInvariant, Inside
  <2>11. Header <= p
    BY <2>2 DEF ArenaInvariant
  <2>12. QED
    BY <1>1, <2>3, <2>4, <2>5, <2>6, <2>7, <2>8, <2>10, <2>11, PlaceKeeps
<1>3. CASE Link(t)
  <2>1. PICK r \in Allocations : r = request[t]
    BY <1>1, <1>3 DEF Link, Go, LocalsSet, Getting
  <2>2. PICK p \in Nat : p = AlignUp(Header, r.align)
    BY AlignUpType, RequestType
  <2>3. r.size \in Nat \ {0} /\ r.size <= ChunkSize - MaxAlign
    OBVIOUS
  <2>4. Header <= p /\ p <= MaxAlign
    <3>1. MaxAlign \in Nat /\ Header <= MaxAlign /\ MaxAlign % r.align = 0
      BY AlignmentsAssumption
    <3>2. QED
      BY <2>2, <3>1, AlignUpBounds, RequestType
  <2>5. /\ pc[t] = "link" /\ pc'[t] = "idle"
        /\ Place(t, chunk[t], p, r.size)
        /\ listHead'[t] = chunk[t] /\ owned' = owned
    BY <1>1, <1>3, <2>1, <2>2 DEF Link, Go, TypeOK
  <2>6. chunk[t] \in Chunks
    BY <1>1, <2>5 DEF LocalsSet, Holding
  <2>7. /\ Linked(t)' = owned[t] /\ Linked(t) \subseteq owned[t]
        /\ chunk[t] \in owned[t] /\ chunk[t] \notin Linked(t)
    BY <1>1, <2>5 DEF Linked, Transit, Holding
  <2>8. \A o \in objects[t] : o.chunk # chunk[t]
    BY <2>7 DEF ArenaInvariant, Inside
  <2>9. ~Emptying(t)'
    BY <2>5 DEF Emptying
  <2>10. p + r.size <= ChunkSize
    BY <2>3, <2>4
  <2>11. QED
    BY <1>1, <2>3, <2>4, <2>5, <2>6, <2>7, <2>8, <2>9, <2>10, PlaceKeeps
<1>4. ASSUME objects'[t] = {}, Header <= cur'[t]
      PROVE  ArenaInvariant(t)'
  BY <1>4 DEF ArenaInvariant
<1>5. ASSUME objects'[t] = objects[t], listHead'[t] = listHead[t],
             cur[t] <= cur'[t], cur'[t] \in Nat,
             Linked(t) \subseteq Linked(t)', ~Emptying(t)'
      PROVE  ArenaInvariant(t)'
  <2>1. cur[t] \in Nat /\ \A o \in objects[t] : o \in Objects
    BY <1>1 DEF TypeOK
  <2>2. \A o \in objects[t] : o.hi \in Nat
    BY <2>1 DEF Objects
  <2>3. \A o \in objects'[t] : Inside(t, o)'
    BY <1>5, <2>1, <2>2 DEF ArenaInvariant, Inside
  <2>4. Header <= cur'[t]
    BY <1>5, <2>1 DEF ArenaInvariant
  <2>5. QED
    BY <1>5, <2>3, <2>4 DEF ArenaInvariant, Disjoint
<1>6. ASSUME NEW r \in Allocations, AllocateChunk(t, r)
      PROVE  ArenaInvariant(t)'
  <2>1. AlignUp(cur[t], r.align) \in Nat /\ cur[t] <= AlignUp(cur[t], r.align)
    BY <1>1, AlignUpBounds, RequestType DEF TypeOK
  <2>2. /\ pc[t] = "idle" /\ pc'[t] = "dequeue"
        /\ cur'[t] = AlignUp(cur[t], r.align)
        /\ UNCHANGED <<listHead, objects, owned, chunk>>
    BY <1>1, <1>6 DEF AllocateChunk, Go, TypeOK
  <2>3. Linked(t)' = Linked(t) /\ ~Emptying(t)'
    BY <2>2 DEF Linked, Transit, Holding, Emptying
  <2>4. QED
    BY <1>5, <2>1, <2>2, <2>3
<1>7. CASE Dequeue(t) \/ Mmap(t)
  <2>1. /\ pc[t] \in {"dequeue", "mmap"} /\ pc'[t] \in {"subtract", "link"}
        /\ UNCHANGED <<listHead, objects, cur>>
        /\ \E c \in Chunks : c \notin owned[t] /\ Take(t, c)
    <3>1. owned[t] \subseteq mapped /\ owned[t] \cap freeList = {}
      BY DEF PoolInvariant, ExclusiveChunks
    <3>2. QED
      BY <1>1, <1>7, <3>1 DEF Dequeue, Mmap, Go, TypeOK, arena
  <2>2. PICK c \in Chunks : c \notin owned[t] /\ Take(t, c)
    BY <2>1
  <2>3. owned'[t] = owned[t] \cup {c} /\ chunk'[t] = c
    BY <1>1, <2>2 DEF Take, TypeOK
  <2>4. Linked(t) \subseteq Linked(t)' /\ ~Emptying(t)'
    BY <2>1, <2>2, <2>3 DEF Linked, Transit, Holding, Emptying
  <2>5. cur[t] \in Nat
    BY <1>1 DEF TypeOK
  <2>6. QED
    BY <1>5, <2>1, <2>4, <2>5
<1>8. CASE DequeueNothing(t) \/ Subtract(t)
  <2>1. /\ UNCHANGED <<listHead, objects, cur, owned, chunk>>
        /\ \/ pc[t] = "dequeue" /\ pc'[t] = "mmap"
           \/ pc[t] = "subtract" /\ pc'[t] = "link"
    BY <1>1, <1>8 DEF DequeueNothing, Subtract, Go, TypeOK, arena
  <2>2. Linked(t)' = Linked(t) /\ ~Emptying(t)'
    BY <2>1 DEF Linked, Transit, Holding, Emptying
  <2>3. cur[t] \in Nat
    BY <1>1 DEF TypeOK
  <2>4. QED
    BY <1>5, <2>1, <2>2, <2>3
<1>9. CASE Reset(t)
  BY <1>1, <1>4, <1>9 DEF Reset, TypeOK, ArenaInvariant
<1>10. CASE Free(t)
  <2>1. Emptying(t) /\ UNCHANGED objects /\ cur'[t] \in {cur[t], Header}
    BY <1>1, <1>10 DEF Free, Unlink, UnlinkDone, Load, Enqueue, EnqueueFails,
       Add, Munmap, Go, Emptying, arena, TypeOK
  <2>2. QED
    BY <1>4, <2>1 DEF ArenaInvariant
<1>11. QED
  BY <1>2, <1>3, <1>6, <1>7, <1>8, <1>9, <1>10 DEF Thread, Get

\* A step of another thread does not touch the arena.
LEMMA OtherArenas ==
    ASSUME TypeOK, NEW t \in Threads, Thread(t), NEW u \in Threads \ {t},
           ArenaInvariant(u)
    PROVE  ArenaInvariant(u)'
<1>1. /\ pc'[u] = pc[u] /\ cur'[u] = cur[u] /\ objects'[u] = objects[u]
      /\ listHead'[u] = listHead[u] /\ owned'[u] = owned[u]
      /\ chunk'[u] = chunk[u]
  <2> USE DEF TypeOK, Go, arena
  <2>1. ASSUME NEW r \in Allocations, AllocateHere(t, r) \/ AllocateChunk(t, r)
        PROVE  /\ pc'[u] = pc[u] /\ cur'[u] = cur[u] /\ objects'[u] = objects[u]
               /\ listHead'[u] = listHead[u] /\ owned'[u] = owned[u]
               /\ chunk'[u] = chunk[u]
    BY <2>1 DEF AllocateHere, AllocateChunk, Place
  <2>2. CASE Reset(t)
    BY <2>2 DEF Reset
  <2>3. CASE Get(t)
    BY <2>3 DEF Get, Dequeue, DequeueNothing, Subtract, Mmap, Link, Take, Place,
       Forget
  <2>4. CASE Free(t)
    BY <2>4 DEF Free, Unlink, UnlinkDone, Load, Enqueue, EnqueueFails, Add,
       Munmap, Forget, GiveUp, Advance
  <2>5. QED
    BY <2>1, <2>2, <2>3, <2>4 DEF Thread
<1>2. Linked(u)' = Linked(u) /\ Emptying(u)' = Emptying(u)
  BY <1>1 DEF Linked, Transit, Holding, Emptying
<1>3. \A o \in objects[u] : Inside(u, o)' <=> Inside(u, o)
  BY <1>1, <1>2 DEF Inside
<1>4. QED
  BY <1>1, <1>2, <1>3 DEF ArenaInvariant, Disjoint

LEMMA NextArenas ==
    ASSUME ArenasInvariant, [Next]_vars
    PROVE  ArenasInvariant'
<1>1. PoolInvariant /\ TypeOK /\ PoolInvariant'
  BY TypeStep, OwningStep, CountingStep
     DEF ArenasInvariant, PoolInvariant, Owning
<1>2. CASE UNCHANGED vars
  BY <1>1, <1>2 DEF vars, arena, ArenasInvariant, ArenaInvariant, Inside,
     Disjoint, Linked, Transit, Holding, Emptying
<1>3. ASSUME NEW t \in Threads, Thread(t), NEW u \in Threads
      PROVE  ArenaInvariant(u)'
  BY <1>1, <1>3, ArenaStep, OtherArenas DEF ArenasInvariant
<1>4. QED
  BY <1>1, <1>2, <1>3 DEF Next, ArenasInvariant

\* Live objects lie inside chunks their arena owns, behind the list link, and
\* no two of them share a byte, across all arenas and whatever threads get and
\* free chunks meanwhile (codegen_arena_allocator.h: Allocate,
\* GetNewMemoryChunk).
THEOREM ObjectsIntactHolds == Spec => []ObjectsIntact
<1>1. Init => ArenasInvariant
  <2> SUFFICES ASSUME Init PROVE ArenasInvariant
    OBVIOUS
  <2>1. \A t \in Threads : /\ cur[t] = Header /\ objects[t] = {}
    BY DEF Init
  <2>2. \A t \in Threads : ArenaInvariant(t)
    BY <2>1 DEF ArenaInvariant
  <2>3. QED
    BY <2>2, PoolInit DEF ArenasInvariant
<1>2. ArenasInvariant => ObjectsIntact
  <2> SUFFICES ASSUME ArenasInvariant PROVE ObjectsIntact
    OBVIOUS
  <2>1. \A t \in Threads : ArenaInvariant(t) /\ Linked(t) \subseteq owned[t]
    BY DEF ArenasInvariant, Linked
  <2>2. ASSUME NEW t \in Threads, NEW o \in objects[t]
        PROVE  o.chunk \in owned[t] /\ Header <= o.lo /\ o.hi <= ChunkSize
    BY <2>1 DEF ArenaInvariant, Inside
  <2>3. ASSUME NEW t \in Threads, NEW u \in Threads,
               NEW o \in objects[t], NEW p \in objects[u], t # u \/ o # p
        PROVE  o.chunk # p.chunk \/ o.hi <= p.lo \/ p.hi <= o.lo
    <3>1. CASE t = u
      BY <2>1, <2>3, <3>1 DEF ArenaInvariant, Disjoint
    <3>2. CASE t # u
      <4>1. owned[t] \cap owned[u] = {}
        BY <3>2 DEF ArenasInvariant, PoolInvariant, ExclusiveChunks
      <4>2. QED
        BY <2>2, <4>1
    <3>3. QED
      BY <3>1, <3>2
  <2>4. QED
    BY <2>2, <2>3 DEF ObjectsIntact
<1>3. QED
  BY <1>1, <1>2, NextArenas, PTL DEF Spec
(***************************************************************************)
(* The lists of the arenas.                                                *)
(***************************************************************************)
\* Induction over the natural numbers, for a set in place of a predicate: the
\* intervals from 0 are well-founded.
LEMMA SetInduction ==
    ASSUME NEW S, 0 \in S, \A n \in Nat : n \in S => n + 1 \in S
    PROVE  Nat \subseteq S
<1> SUFFICES ASSUME NEW m \in Nat, m \notin S PROVE FALSE
  OBVIOUS
<1> DEFINE T == {0 .. k : k \in Nat \ S}
           R == StrictSubsetOrdering(Nat)
<1>1. T \subseteq FiniteSubsetsOf(Nat)
  <2>1. \A k \in Nat : IsFiniteSet(0 .. k) /\ 0 .. k \in SUBSET Nat
    BY FS_Interval
  <2>2. QED
    BY <2>1 DEF FiniteSubsetsOf
<1>2. 0 .. m \in T
  OBVIOUS
<1>3. IsWellFoundedOn(R, FiniteSubsetsOf(Nat))
  BY FS_StrictSubsetOrderingWellFounded
<1>4. PICK x \in T : \A y \in T : <<y, x>> \notin R
  <2> HIDE DEF T, R
  <2>1. T # {}
    BY <1>2
  <2>2. QED
    BY <1>1, <1>3, <2>1, WFMin
<1>5. PICK k \in Nat \ S : x = 0 .. k
  BY <1>4
<1>6. k - 1 \in Nat \ S
  BY <1>5
<1>7. 0 .. k - 1 \in T
  BY <1>6
<1>8. <<0 .. k - 1, 0 .. k>> \in R
  <2>1. 0 .. k - 1 \in SUBSET Nat /\ 0 .. k \in SUBSET Nat
    BY <1>5, <1>6
  <2>2. k \in 0 .. k /\ k \notin 0 .. k - 1
    BY <1>5
  <2>3. 0 .. k - 1 \subseteq 0 .. k /\ 0 .. k - 1 # 0 .. k
    BY <1>5, <2>2
  <2>4. QED
    BY <2>1, <2>3 DEF StrictSubsetOrdering
<1>9. QED
  BY <1>4, <1>5, <1>7, <1>8

\* s lists the n chunks of a set, from the first one along the links.
ListOf(first, set, links, n, s) ==
    /\ set = {s[i] : i \in 1 .. n}
    /\ first = IF n = 0 THEN Null ELSE s[1]
    /\ \A i \in 1 .. n : links[s[i]] = IF i = n THEN Null ELSE s[i + 1]
    /\ \A i, j \in 1 .. n : i # j => s[i] # s[j]

IsList(first, set, links) ==
    \E n \in Nat : \E s \in [1 .. n -> Chunks] : ListOf(first, set, links, n, s)

\* Writing the link of a chunk that is in no list leaves a list as it is.
LEMMA ListKept ==
    ASSUME NEW first, NEW set, NEW links, NEW after,
           IsList(first, set, links),
           \A c \in set : after[c] = links[c]
    PROVE  IsList(first, set, after)
<1>1. PICK n \in Nat : \E s \in [1 .. n -> Chunks] :
              ListOf(first, set, links, n, s)
  BY DEF IsList
<1>2. PICK s \in [1 .. n -> Chunks] : ListOf(first, set, links, n, s)
  BY <1>1
<1>3. ListOf(first, set, after, n, s)
  <2>1. \A i \in 1 .. n : s[i] \in set
    BY <1>2 DEF ListOf
  <2>2. \A i \in 1 .. n : after[s[i]] = links[s[i]]
    BY <2>1
  <2>3. QED
    BY <1>2, <2>2 DEF ListOf
<1>4. QED
  BY <1>3 DEF IsList

\* AppendToList puts a chunk in front.
LEMMA ListLonger ==
    ASSUME NEW first, NEW set, NEW links,
           IsList(first, set, links),
           NEW c \in Chunks, c \notin set,
           NEW after, after[c] = first,
           \A d \in set : after[d] = links[d]
    PROVE  IsList(c, set \cup {c}, after)
<1>1. PICK n \in Nat : \E s \in [1 .. n -> Chunks] :
              ListOf(first, set, after, n, s)
  BY ListKept DEF IsList
<1>2. PICK s \in [1 .. n -> Chunks] : ListOf(first, set, after, n, s)
  BY <1>1
<1> DEFINE r == [i \in 1 .. n + 1 |-> IF i = 1 THEN c ELSE s[i - 1]]
<1>3. /\ r \in [1 .. n + 1 -> Chunks] /\ n + 1 \in Nat /\ n + 1 # 0
      /\ r[1] = c /\ 1 \in 1 .. n + 1
      /\ \A i \in 2 .. n + 1 : r[i] = s[i - 1] /\ i - 1 \in 1 .. n
      /\ \A i \in 1 .. n : s[i] = r[i + 1] /\ i + 1 \in 2 .. n + 1
  OBVIOUS
<1> HIDE DEF r
<1>4. \A i \in 1 .. n + 1 : i = 1 \/ i \in 2 .. n + 1
  OBVIOUS
<1>5. set \cup {c} = {r[i] : i \in 1 .. n + 1}
  <2>1. set = {s[i] : i \in 1 .. n}
    BY <1>2 DEF ListOf
  <2>2. \A i \in 1 .. n + 1 : r[i] \in set \cup {c}
    BY <1>3, <1>4, <2>1
  <2>3. ASSUME NEW d \in set \cup {c}
        PROVE  \E i \in 1 .. n + 1 : d = r[i]
    <3>1. CASE d = c
      BY <1>3, <3>1
    <3>2. CASE d \in set
      <4>1. PICK i \in 1 .. n : d = s[i]
        BY <2>1, <3>2
      <4>2. d = r[i + 1] /\ i + 1 \in 1 .. n + 1
        BY <1>3, <4>1
      <4>3. QED
        BY <4>2
    <3>3. QED
      BY <2>3, <3>1, <3>2
  <2>4. QED
    BY <2>2, <2>3
<1>6. ASSUME NEW i \in 1 .. n + 1
      PROVE  after[r[i]] = IF i = n + 1 THEN Null ELSE r[i + 1]
  <2>1. CASE i = 1
    <3>1. first = IF n = 0 THEN Null ELSE s[1]
      BY <1>2 DEF ListOf
    <3>2. n # 0 => s[1] = r[1 + 1]
      BY <1>3
    <3>3. QED
      BY <1>3, <2>1, <3>1, <3>2
  <2>2. CASE i \in 2 .. n + 1
    <3>1. after[s[i - 1]] = IF i - 1 = n THEN Null ELSE s[(i - 1) + 1]
      BY <1>2, <1>3, <2>2 DEF ListOf
    <3>2. i # n + 1 => s[i] = r[i + 1]
      BY <1>3, <2>2
    <3>3. QED
      BY <1>3, <2>2, <3>1, <3>2
  <2>3. QED
    BY <1>4, <2>1, <2>2
<1>7. ASSUME NEW i \in 1 .. n + 1, NEW j \in 1 .. n + 1, i # j
      PROVE  r[i] # r[j]
  <2>1. \A k \in 1 .. n : s[k] \in set
    BY <1>2 DEF ListOf
  <2>2. CASE i = 1 \/ j = 1
    BY <1>3, <1>4, <1>7, <2>1, <2>2
  <2>3. CASE i \in 2 .. n + 1 /\ j \in 2 .. n + 1
    <3>1. r[i] = s[i - 1] /\ r[j] = s[j - 1]
          /\ i - 1 \in 1 .. n /\ j - 1 \in 1 .. n /\ i - 1 # j - 1
      BY <1>3, <1>7, <2>3
    <3>2. QED
      BY <1>2, <3>1 DEF ListOf
  <2>4. QED
    BY <1>4, <2>2, <2>3
<1>8. ListOf(c, set \cup {c}, after, n + 1, r)
  BY <1>3, <1>5, <1>6, <1>7 DEF ListOf
<1>9. QED
  BY <1>3, <1>8 DEF IsList

\* FreeAllMemoryChunks takes the first chunk off.
LEMMA ListShorter ==
    ASSUME NEW first, NEW set, NEW links,
           IsList(first, set, links), first # Null
    PROVE  first \in set /\ IsList(links[first], set \ {first}, links)
<1>1. PICK n \in Nat : \E s \in [1 .. n -> Chunks] :
              ListOf(first, set, links, n, s)
  BY DEF IsList
<1>2. PICK s \in [1 .. n -> Chunks] : ListOf(first, set, links, n, s)
  BY <1>1
<1>3. n # 0 /\ n - 1 \in Nat /\ 1 \in 1 .. n /\ first = s[1]
  BY <1>2 DEF ListOf
<1> DEFINE r == [i \in 1 .. n - 1 |-> s[i + 1]]
<1>4. /\ r \in [1 .. n - 1 -> Chunks]
      /\ \A i \in 1 .. n - 1 : r[i] = s[i + 1] /\ i + 1 \in 2 .. n
      /\ \A i \in 2 .. n : s[i] = r[i - 1] /\ i - 1 \in 1 .. n - 1
      /\ \A i \in 2 .. n : i \in 1 .. n /\ i # 1
  BY <1>3
<1> HIDE DEF r
<1>5. set = {s[i] : i \in 1 .. n} /\ first \in set
  BY <1>2, <1>3 DEF ListOf
<1>6. set \ {first} = {r[i] : i \in 1 .. n - 1}
  <2>1. ASSUME NEW i \in 1 .. n - 1 PROVE r[i] \in set \ {first}
    <3>1. r[i] = s[i + 1] /\ i + 1 \in 1 .. n /\ i + 1 # 1
      BY <1>4
    <3>2. s[i + 1] # s[1]
      BY <1>2, <1>3, <3>1 DEF ListOf
    <3>3. QED
      BY <1>3, <1>5, <3>1, <3>2
  <2>2. ASSUME NEW d \in set \ {first} PROVE \E i \in 1 .. n - 1 : d = r[i]
    <3>1. PICK i \in 1 .. n : d = s[i]
      BY <1>5
    <3>2. i \in 2 .. n
      BY <1>3, <3>1
    <3>3. QED
      BY <1>4, <3>1, <3>2
  <2>3. QED
    BY <2>1, <2>2
<1>7. links[first] = IF n - 1 = 0 THEN Null ELSE r[1]
  <2>1. links[first] = IF 1 = n THEN Null ELSE s[1 + 1]
    BY <1>2, <1>3 DEF ListOf
  <2>2. n - 1 # 0 => r[1] = s[1 + 1]
    BY <1>3, <1>4
  <2>3. QED
    BY <1>3, <2>1, <2>2
<1>8. ASSUME NEW i \in 1 .. n - 1
      PROVE  links[r[i]] = IF i = n - 1 THEN Null ELSE r[i + 1]
  <2>1. r[i] = s[i + 1] /\ i + 1 \in 1 .. n
    BY <1>4
  <2>2. links[s[i + 1]] = IF i + 1 = n THEN Null ELSE s[(i + 1) + 1]
    BY <1>2, <2>1 DEF ListOf
  <2>3. i # n - 1 => r[i + 1] = s[(i + 1) + 1]
    BY <1>4
  <2>4. QED
    BY <1>3, <2>1, <2>2, <2>3
<1>9. ASSUME NEW i \in 1 .. n - 1, NEW j \in 1 .. n - 1, i # j
      PROVE  r[i] # r[j]
  <2>1. r[i] = s[i + 1] /\ r[j] = s[j + 1]
        /\ i + 1 \in 1 .. n /\ j + 1 \in 1 .. n /\ i + 1 # j + 1
    BY <1>4, <1>9
  <2>2. QED
    BY <1>2, <2>1 DEF ListOf
<1>10. ListOf(links[first], set \ {first}, links, n - 1, r)
  BY <1>6, <1>7, <1>8, <1>9 DEF ListOf
<1>11. QED
  BY <1>3, <1>4, <1>5, <1>10 DEF IsList
\* What Chain() reaches in k steps.
Reaches(c, reach) ==
    reach = [k \in 0 .. Cardinality(Chunks) |->
                IF k = 0 THEN {c} \ {Null}
                ELSE reach[k - 1] \cup ({link[d] : d \in reach[k - 1]} \ {Null})]

\* The chunks of a list are those reached from its first one.
LEMMA ChainOfList ==
    ASSUME NEW first, NEW set, IsList(first, set, link)
    PROVE  Chain(first) = set
<1>1. PICK n \in Nat : \E s \in [1 .. n -> Chunks] :
              ListOf(first, set, link, n, s)
  BY DEF IsList
<1>2. PICK s \in [1 .. n -> Chunks] : ListOf(first, set, link, n, s)
  BY <1>1
<1>3. PICK N \in Nat : N = Cardinality(Chunks) /\ n <= N
  <2>1. Cardinality(Chunks) \in Nat
    BY FS_CardinalityType
  <2>2. IsFiniteSet(1 .. n) /\ Cardinality(1 .. n) = n
    BY FS_Interval
  <2>3. ASSUME Cardinality(Chunks) < n PROVE FALSE
    <3>1. \E x, y \in 1 .. n : x # y /\ s[x] = s[y]
      BY <2>2, <2>3, FS_PigeonHole
    <3>2. QED
      BY <1>2, <3>1 DEF ListOf
  <2>4. QED
    BY <2>1, <2>3
<1> DEFINE Upto(k) == {i \in 1 .. n : i <= k + 1}
           Part(k) == {s[i] : i \in Upto(k)}
           g == [k \in 0 .. N |-> Part(k)]
<1>4. Part(0) = {first} \ {Null}
  <2>1. first = IF n = 0 THEN Null ELSE s[1]
    BY <1>2 DEF ListOf
  <2>2. CASE n = 0
    BY <2>1, <2>2
  <2>3. CASE n # 0
    <3>1. Upto(0) = {1} /\ s[1] \in Chunks
      BY <2>3
    <3>2. QED
      BY <2>1, <2>3, <3>1
  <2>4. QED
    BY <2>2, <2>3
<1>5. ASSUME NEW k \in 1 .. N
      PROVE  Part(k) = Part(k - 1) \cup ({link[d] : d \in Part(k - 1)} \ {Null})
  <2>1. ASSUME NEW i \in Upto(k)
        PROVE  s[i] \in Part(k - 1) \cup ({link[d] : d \in Part(k - 1)} \ {Null})
    <3>1. CASE i <= k
      BY <3>1
    <3>2. CASE i = k + 1
      <4>1. i - 1 \in Upto(k - 1) /\ i - 1 # n /\ (i - 1) + 1 = i
        BY <3>2
      <4>2. link[s[i - 1]] = s[i]
        BY <1>2, <4>1 DEF ListOf
      <4>3. s[i] \in Chunks
        OBVIOUS
      <4>4. QED
        BY <4>1, <4>2, <4>3
    <3>3. QED
      BY <3>1, <3>2
  <2>2. ASSUME NEW i \in Upto(k - 1), link[s[i]] # Null
        PROVE  link[s[i]] \in Part(k)
    <3>1. i \in 1 .. n /\ link[s[i]] = IF i = n THEN Null ELSE s[i + 1]
      BY <1>2 DEF ListOf
    <3>2. link[s[i]] = s[i + 1] /\ i + 1 \in Upto(k)
      BY <2>2, <3>1
    <3>3. QED
      BY <3>2
  <2>3. \A i \in Upto(k - 1) : i \in Upto(k)
    OBVIOUS
  <2>4. Part(k) \subseteq Part(k - 1) \cup ({link[d] : d \in Part(k - 1)} \ {Null})
    BY <2>1
  <2>5. {link[d] : d \in Part(k - 1)} \ {Null} \subseteq Part(k)
    BY <2>2
  <2>6. Part(k - 1) \subseteq Part(k)
    BY <2>3
  <2>7. QED
    BY <2>4, <2>5, <2>6
<1>6. \A k \in 0 .. N : g[k] = Part(k)
  OBVIOUS
<1>7. Part(N) = set
  <2>1. Upto(N) = 1 .. n
    BY <1>3
  <2>2. QED
    BY <1>2, <2>1 DEF ListOf
<1> HIDE DEF Part, g
<1>8. Reaches(first, g)
  <2>1. \A k \in 0 .. N : k = 0 \/ (k \in 1 .. N /\ k - 1 \in 0 .. N)
    OBVIOUS
  <2>2. \A k \in 0 .. N :
           g[k] = IF k = 0 THEN {first} \ {Null}
                  ELSE g[k - 1] \cup ({link[d] : d \in g[k - 1]} \ {Null})
    BY <1>4, <1>5, <1>6, <2>1
  <2>3. g = [k \in 0 .. N |-> g[k]]
    BY DEF g
  <2>4. QED
    BY <1>3, <2>2, <2>3 DEF Reaches
<1>9. ASSUME NEW f, Reaches(first, f) PROVE f[N] = g[N]
  <2> DEFINE S == {k \in Nat : k \in 0 .. N => f[k] = g[k]}
  <2>1. \A k \in 0 .. N :
           /\ f[k] = IF k = 0 THEN {first} \ {Null}
                     ELSE f[k - 1] \cup ({link[d] : d \in f[k - 1]} \ {Null})
           /\ g[k] = IF k = 0 THEN {first} \ {Null}
                     ELSE g[k - 1] \cup ({link[d] : d \in g[k - 1]} \ {Null})
    BY <1>3, <1>8, <1>9 DEF Reaches
  <2>2. 0 \in S
    BY <2>1
  <2>3. ASSUME NEW k \in Nat, k \in S PROVE k + 1 \in S
    <3>1. CASE k + 1 \in 0 .. N
      <4>1. f[k] = g[k] /\ k + 1 # 0 /\ (k + 1) - 1 = k
        BY <2>3, <3>1
      <4>2. /\ f[k + 1] = f[k] \cup ({link[d] : d \in f[k]} \ {Null})
            /\ g[k + 1] = g[k] \cup ({link[d] : d \in g[k]} \ {Null})
        <5> DEFINE m == k + 1
        <5>1. m \in 0 .. N /\ m # 0 /\ m - 1 = k
          BY <3>1
        <5> HIDE DEF m
        <5>2. /\ f[m] = f[m - 1] \cup ({link[d] : d \in f[m - 1]} \ {Null})
              /\ g[m] = g[m - 1] \cup ({link[d] : d \in g[m - 1]} \ {Null})
          BY <2>1, <5>1
        <5>3. QED
          BY <5>1, <5>2 DEF m
      <4>3. f[k + 1] = g[k + 1]
        <5> HIDE DEF S
        <5>1. f[k] = g[k]
          BY <4>1
        <5>2. QED
          BY <4>2, <5>1, Zenon
      <4>4. QED
        BY <4>3
    <3>2. QED
      BY <3>1
  <2> HIDE DEF S
  <2>4. N \in S
    BY <2>2, <2>3, SetInduction
  <2>5. QED
    BY <2>4 DEF S
<1>10. Chain(first) = (CHOOSE f : Reaches(first, f))[N]
  BY <1>3 DEF Chain, Reaches
<1>11. QED
  BY <1>3, <1>6, <1>7, <1>8, <1>9, <1>10
\* Every mapped chunk is in the pool, lost, or in the hands of a thread, and
\* the linked chunks of a thread are one list.
AllHeld == mapped = freeList \cup lost \cup UNION {owned[t] : t \in Threads}
Listed(t) == IsList(First(t), Linked(t), link)

LeakInvariant == PoolInvariant /\ AllHeld /\ \A t \in Threads : Listed(t)

\* Chunks only pass from the system to a thread, and between a thread and the
\* pool.
LEMMA HeldStep ==
    ASSUME PoolInvariant, AllHeld, NEW t \in Threads, Thread(t)
    PROVE  AllHeld'
<1> DEFINE Rest == UNION {owned[u] : u \in Threads \ {t}}
<1>1. TypeOK /\ Transit(t) \subseteq owned[t]
      /\ owned[t] \cap freeList = {} /\ owned[t] \cap lost = {}
      /\ freeList \cap lost = {}
  BY DEF PoolInvariant, TransitOwned, ExclusiveChunks
<1>2. Rest \cap owned[t] = {}
  BY DEF PoolInvariant, ExclusiveChunks
<1>3. Rest \cap (freeList \cup lost) = {}
  BY DEF PoolInvariant, ExclusiveChunks
<1>4. mapped = freeList \cup lost \cup Rest \cup owned[t]
  BY DEF AllHeld
<1>5. ASSUME \A u \in Threads \ {t} : owned'[u] = owned[u],
             mapped' = freeList' \cup lost' \cup Rest \cup owned'[t]
      PROVE  AllHeld'
  BY <1>5 DEF AllHeld
<1> HIDE DEF Rest
<1>6. CASE UNCHANGED <<mapped, freeList, lost, owned>>
  BY <1>6 DEF AllHeld
<1>7. CASE Dequeue(t) \/ Mmap(t)
  <2>1. PICK c \in Chunks :
           /\ owned' = [owned EXCEPT ![t] = @ \cup {c}]
           /\ lost' = lost
           /\ \/ c \in freeList /\ freeList' = freeList \ {c} /\ mapped' = mapped
              \/ freeList' = freeList /\ mapped' = mapped \cup {c}
    BY <1>1, <1>7 DEF Dequeue, Mmap, Take, TypeOK, os, pool
  <2>2. owned'[t] = owned[t] \cup {c} /\ \A u \in Threads \ {t} : owned'[u] = owned[u]
    BY <1>1, <2>1 DEF TypeOK
  <2>3. mapped' = freeList' \cup lost' \cup Rest \cup owned'[t]
    BY <1>4, <2>1, <2>2
  <2>4. QED
    BY <1>5, <2>2, <2>3
<1>8. CASE Enqueue(t) \/ Munmap(t)
  <2>1. chunk[t] \in owned[t]
    BY <1>1, <1>8 DEF Enqueue, Munmap, Go, Transit, Holding
  <2>2. /\ owned' = [owned EXCEPT ![t] = @ \ {chunk[t]}]
        /\ \/ /\ freeList' = freeList \cup {chunk[t]}
              /\ mapped' = mapped /\ lost' = lost
           \/ /\ freeList' = freeList
              /\ mapped' = mapped \ {chunk[t]} /\ lost' = lost
           \/ /\ freeList' = freeList
              /\ mapped' = mapped /\ lost' = lost \cup {chunk[t]}
    BY <1>8 DEF Enqueue, Munmap, GiveUp, os, pool
  <2>3. /\ owned'[t] = owned[t] \ {chunk[t]}
        /\ \A u \in Threads \ {t} : owned'[u] = owned[u]
    BY <1>1, <2>2 DEF TypeOK
  <2>4. chunk[t] \notin Rest /\ chunk[t] \notin freeList /\ chunk[t] \notin lost
    BY <1>1, <1>2, <2>1
  <2>5. mapped' = freeList' \cup lost' \cup Rest \cup owned'[t]
    BY <1>4, <2>1, <2>2, <2>3, <2>4
  <2>6. QED
    BY <1>5, <2>3, <2>5
<1>9. QED
  BY <1>6, <1>7, <1>8 DEF Thread, Get, Free, AllocateHere, AllocateChunk, Reset,
     DequeueNothing, Subtract, Link, Unlink, UnlinkDone, Load, EnqueueFails, Add,
     os, pool

\* A step of a thread keeps its own chunks a list.
LEMMA ListedStep ==
    ASSUME PoolInvariant, NEW t \in Threads, Listed(t), Thread(t)
    PROVE  Listed(t)'
<1> USE DEF Go, pool, os, arena, Holding, Freeing, Labels
<1>1. TypeOK /\ LocalsSet /\ WellLinked(t) /\ Transit(t) \subseteq owned[t]
  BY DEF PoolInvariant, ListShape, TransitOwned
<1>2. ASSUME link' = link, First(t)' = First(t), Linked(t)' = Linked(t)
      PROVE  Listed(t)'
  BY <1>2 DEF Listed
<1>3. CASE \/ \E r \in Allocations : AllocateHere(t, r) \/ AllocateChunk(t, r)
           \/ Reset(t) \/ DequeueNothing(t) \/ Subtract(t)
           \/ Load(t) \/ EnqueueFails(t) \/ UnlinkDone(t)
  <2>1. /\ UNCHANGED <<owned, link, listHead>>
        /\ Holding(t)' = Holding(t) /\ Freeing(t)' = Freeing(t)
        /\ Holding(t) => chunk'[t] = chunk[t]
        /\ Freeing(t) => next'[t] = next[t]
    BY <1>1, <1>3 DEF AllocateHere, AllocateChunk, Reset, DequeueNothing,
       Subtract, Load, EnqueueFails, UnlinkDone, TypeOK
  <2>2. QED
    BY <1>2, <2>1 DEF First, Linked, Transit
<1>4. CASE Dequeue(t) \/ Mmap(t)
  <2>1. /\ pc[t] \in {"dequeue", "mmap"} /\ pc'[t] \in {"subtract", "link"}
        /\ UNCHANGED <<listHead, link>>
        /\ \E c \in Chunks : c \notin owned[t] /\ Take(t, c)
    <3>1. owned[t] \subseteq mapped /\ owned[t] \cap freeList = {}
      BY DEF PoolInvariant, ExclusiveChunks
    <3>2. QED
      BY <1>1, <1>4, <3>1 DEF Dequeue, Mmap, TypeOK
  <2>2. PICK c \in Chunks : c \notin owned[t] /\ Take(t, c)
    BY <2>1
  <2>3. owned'[t] = owned[t] \cup {c} /\ chunk'[t] = c
    BY <1>1, <2>2 DEF Take, TypeOK
  <2>4. First(t)' = First(t) /\ Linked(t)' = Linked(t)
    BY <2>1, <2>2, <2>3 DEF First, Linked, Transit
  <2>5. QED
    BY <1>2, <2>1, <2>4
<1>5. CASE Link(t)
  <2>1. /\ pc[t] = "link" /\ pc'[t] = "idle" /\ owned' = owned
        /\ listHead'[t] = chunk[t]
    BY <1>1, <1>5 DEF Link, TypeOK
  <2>2. chunk[t] \in Chunks /\ chunk[t] \notin Linked(t)
    BY <1>1, <2>1 DEF LocalsSet, Linked, Transit
  <2>3. /\ First(t) = listHead[t] /\ First(t)' = chunk[t]
        /\ Linked(t)' = Linked(t) \cup {chunk[t]}
    BY <1>1, <2>1 DEF First, Linked, Transit
  <2>4. /\ link'[chunk[t]] = listHead[t]
        /\ \A d \in Linked(t) : link'[d] = link[d]
    <3>1. Linked(t) \subseteq Chunks
      BY <1>1 DEF Linked, TypeOK
    <3>2. QED
      BY <1>1, <1>5, <2>2, <3>1 DEF Link, TypeOK
  <2>5. IsList(chunk[t], Linked(t) \cup {chunk[t]}, link')
    BY <2>2, <2>3, <2>4, ListLonger DEF Listed
  <2>6. QED
    BY <2>3, <2>5 DEF Listed
<1>6. CASE Unlink(t)
  <2>1. /\ pc[t] = "unlink" /\ pc'[t] = "load" /\ UNCHANGED <<owned, link>>
        /\ listHead[t] # Null /\ chunk'[t] = listHead[t]
        /\ next'[t] = link[listHead[t]]
    BY <1>1, <1>6 DEF Unlink, TypeOK
  <2>2. /\ First(t) = listHead[t] /\ First(t)' = link[listHead[t]]
        /\ Linked(t)' = Linked(t) \ {listHead[t]}
    BY <2>1 DEF First, Linked, Transit
  <2>3. IsList(link[listHead[t]], Linked(t) \ {listHead[t]}, link)
    BY <2>1, <2>2, ListShorter DEF Listed
  <2>4. QED
    BY <2>1, <2>2, <2>3 DEF Listed
<1>7. CASE Enqueue(t) \/ Munmap(t)
  <2>1. /\ pc[t] \in {"enqueue", "munmap"} /\ link' = link
        /\ owned'[t] = owned[t] \ {chunk[t]}
        /\ \/ pc'[t] = "add" /\ next' = next
           \/ pc'[t] = "unlink" /\ listHead'[t] = next[t]
    BY <1>1, <1>7 DEF Enqueue, Munmap, GiveUp, Advance, TypeOK
  <2>2. First(t)' = First(t) /\ Linked(t)' = Linked(t)
    BY <2>1 DEF First, Linked, Transit
  <2>3. QED
    BY <1>2, <2>1, <2>2
<1>8. CASE Add(t)
  <2>1. /\ pc[t] = "add" /\ pc'[t] = "unlink" /\ UNCHANGED <<link, owned>>
        /\ listHead'[t] = next[t]
    BY <1>1, <1>8 DEF Add, Advance, TypeOK
  <2>2. First(t)' = First(t) /\ Linked(t)' = Linked(t)
    BY <2>1 DEF First, Linked, Transit
  <2>3. QED
    BY <1>2, <2>1, <2>2
<1>9. QED
  BY <1>3, <1>4, <1>5, <1>6, <1>7, <1>8 DEF Thread, Get, Free

\* A step of another thread writes no link of the list.
LEMMA ListedApart ==
    ASSUME PoolInvariant, NEW t \in Threads, Thread(t), NEW u \in Threads \ {t},
           Listed(u)
    PROVE  Listed(u)'
<1>1. TypeOK /\ LocalsSet /\ Transit(t) \subseteq owned[t]
      /\ owned[t] \cap owned[u] = {}
  BY DEF PoolInvariant, TransitOwned, ExclusiveChunks
<1>2. /\ pc'[u] = pc[u] /\ listHead'[u] = listHead[u] /\ owned'[u] = owned[u]
      /\ chunk'[u] = chunk[u] /\ next'[u] = next[u]
  <2> USE <1>1 DEF TypeOK, Go, arena, pool, os
  <2>1. CASE \E r \in Allocations : AllocateHere(t, r) \/ AllocateChunk(t, r)
    BY <2>1 DEF AllocateHere, AllocateChunk
  <2>2. CASE Reset(t)
    BY <2>2 DEF Reset
  <2>3. CASE Get(t)
    BY <2>3 DEF Get, Dequeue, DequeueNothing, Subtract, Mmap, Link, Take, Forget
  <2>4. CASE Free(t)
    BY <2>4 DEF Free, Unlink, UnlinkDone, Load, Enqueue, EnqueueFails, Add,
       Munmap, Forget, GiveUp, Advance
  <2>5. QED
    BY <2>1, <2>2, <2>3, <2>4 DEF Thread
<1>3. First(u)' = First(u) /\ Linked(u)' = Linked(u)
  BY <1>2 DEF First, Linked, Transit, Freeing, Holding
<1>4. \A c \in Linked(u) : link'[c] = link[c]
  <2>1. CASE Link(t)
    <3>1. chunk[t] \in owned[t]
      BY <1>1, <2>1 DEF Link, Go, Transit, Holding
    <3>2. Linked(u) \subseteq owned[u] /\ owned[u] \subseteq Chunks
      BY <1>1 DEF Linked, TypeOK
    <3>3. QED
      BY <1>1, <2>1, <3>1, <3>2 DEF Link, TypeOK
  <2>2. CASE ~Link(t)
    <3>1. link' = link
      BY <2>2 DEF Thread, Get, Free, AllocateHere, AllocateChunk, Reset,
         Dequeue, DequeueNothing, Subtract, Mmap, Unlink, UnlinkDone, Load,
         Enqueue, EnqueueFails, Add, Munmap
    <3>2. QED
      BY <3>1
  <2>3. QED
    BY <2>1, <2>2
<1>5. IsList(First(u), Linked(u), link')
  BY <1>4, ListKept DEF Listed
<1>6. QED
  BY <1>3, <1>5 DEF Listed

LEMMA NextLeaks ==
    ASSUME LeakInvariant, [Next]_vars
    PROVE  LeakInvariant'
<1>1. PoolInvariant /\ PoolInvariant'
  BY TypeStep, OwningStep, CountingStep DEF LeakInvariant, PoolInvariant, Owning
<1>2. CASE UNCHANGED vars
  <2>1. AllHeld' /\ \A t \in Threads : Listed(t)'
    BY <1>2 DEF vars, os, arena, pool, LeakInvariant, AllHeld, Listed, First,
       Linked, Transit, Freeing, Holding
  <2>2. QED
    BY <1>1, <2>1 DEF LeakInvariant
<1>3. ASSUME NEW t \in Threads, Thread(t) PROVE LeakInvariant'
  <2>1. AllHeld'
    BY <1>3, HeldStep DEF LeakInvariant
  <2>2. ASSUME NEW u \in Threads PROVE Listed(u)'
    BY <1>3, ListedStep, ListedApart DEF LeakInvariant
  <2>3. QED
    BY <1>1, <2>1, <2>2 DEF LeakInvariant
<1>4. QED
  BY <1>2, <1>3 DEF Next

\* No chunk is ever dropped: every mapped chunk is in the pool, was reported
\* lost, is being got or freed, or is reached from the head of an arena's list
\* (global_codegen_memory_pool.h, codegen_arena_allocator.h:69-85).
THEOREM NothingLeaksHolds == Spec => []NothingLeaks
<1>1. Init => LeakInvariant
  <2> SUFFICES ASSUME Init PROVE LeakInvariant
    OBVIOUS
  <2>1. AllHeld
    BY DEF Init, AllHeld
  <2>2. ASSUME NEW t \in Threads PROVE Listed(t)
    <3>1. First(t) = Null /\ Linked(t) = {}
      BY DEF Init, First, Linked, Transit, Freeing, Holding
    <3> DEFINE s == [i \in 1 .. 0 |-> Null]
    <3>2. s \in [1 .. 0 -> Chunks]
      OBVIOUS
    <3>3. ListOf(Null, {}, link, 0, s)
      BY DEF ListOf
    <3> HIDE DEF s
    <3>4. QED
      BY <3>1, <3>2, <3>3 DEF Listed, IsList
  <2>3. QED
    BY <2>1, <2>2, PoolInit DEF LeakInvariant
<1>2. LeakInvariant => NothingLeaks
  <2> SUFFICES ASSUME LeakInvariant PROVE NothingLeaks
    OBVIOUS
  <2>1. ASSUME NEW t \in Threads
        PROVE  Chain(First(t)) \cup Transit(t) = owned[t]
    <3>1. Chain(First(t)) = Linked(t)
      BY ChainOfList DEF LeakInvariant, Listed
    <3>2. Transit(t) \subseteq owned[t]
      BY DEF LeakInvariant, PoolInvariant, TransitOwned
    <3>3. QED
      BY <3>1, <3>2 DEF Linked
  <2>2. UNION {Chain(First(t)) \cup Transit(t) : t \in Threads}
           = UNION {owned[t] : t \in Threads}
    BY <2>1
  <2>3. QED
    BY <2>2 DEF LeakInvariant, AllHeld, NothingLeaks
<1>3. QED
  BY <1>1, <1>2, NextLeaks, PTL DEF Spec
=============================================================================
