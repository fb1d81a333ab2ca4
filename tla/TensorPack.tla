------------------------------ MODULE TensorPack ------------------------------
(***************************************************************************)
(* The components of a tensor: the coordinate buffer that insert() fills,  *)
(* pack(), which moves them into the storage, the iterator that reads the  *)
(* storage in chunks, and the two things all packing threads share: the    *)
(* cache of helper functions and the width that the comparator of the sort *)
(* reads (src/tensor.cpp, include/taco/tensor.h).                          *)
(*                                                                         *)
(* Every tensor is used by a thread of its own, so a member of Tensors     *)
(* stands for both.  A component is a record: its coordinates and its      *)
(* value.  The coordinates are in the order of the dimensions in the       *)
(* buffer and in the order of the levels in the storage.  Every insert     *)
(* adds the value 1.  The generated functions "pack" and "iterate" are     *)
(* modelled by what they compute.                                          *)
(***************************************************************************)
EXTENDS Integers, FiniteSets, SequencesExt

CONSTANTS
    Tensors,        \* the tensors, one thread each
    Order,          \* [Tensors -> 0..2], getOrder()
    Dense,          \* the tensors whose levels are all dense
    Reversed,       \* the tensors whose mode ordering is reversed
    Dimension,      \* the size of every dimension
    Capacity,       \* bufferCapacity of the iterator (100 in the code)
    Spare,          \* the argument of reserve()
    Programs,       \* bound: sets of tensors that a program uses at once
    MaxInserts,     \* bound: [Tensors -> Nat], inserts into each tensor
    MaxBuffer,      \* bound: components that reserve() makes room for
    Usage           \* "scalarAgain": insert into a scalar that was packed

VARIABLES
    buffer,                 \* coordinateBuffer, its length in components
    used,                   \* coordinateBufferUsed, in components
    neverPacked, needsPack,
    storage,
    helperFunctions,        \* the cache: a sequence of keys
    numIntegersToCompare,   \* the global that lexicographicalCmp reads
    pc,                     \* where each thread is
    program,                \* the tensors in use
    call,                   \* what the client called
    goal,                   \* what the thread wants a helper function for
    iter,                   \* the iterator of the thread
    narrowest,              \* least width the thread's sort may have read
    total,                  \* ghost: what was inserted at each coordinate
    seen                    \* ghost: what the client's loop has read

components == <<buffer, used, neverPacked, needsPack, storage>>
shared     == <<helperFunctions, numIntegersToCompare, narrowest>>
threads    == <<program, pc, call, goal, iter>>
ghosts     == <<total, seen>>
vars       == <<components, shared, threads, ghosts>>

ASSUME PackAssumption ==
    /\ Order \in [Tensors -> 0..2]
    /\ Dense \subseteq Tensors /\ Reversed \subseteq Tensors
    /\ {Dimension, Capacity, Spare} \subseteq Nat \ {0}
    /\ Programs \subseteq SUBSET Tensors
    /\ MaxInserts \in [Tensors -> Nat]

Coordinates(t) == [1..Order[t] -> 1..Dimension]

\* What resize() fills new room with.
Zeroed(t) == [at |-> [i \in 1..Order[t] |-> 1], val |-> 0]

\* What the buffer may hold past its end: memory that is not the buffer's.
Beyond(t) == {[at |-> c, val |-> v] : c \in Coordinates(t), v \in 0..2}

(***************************************************************************)
(* Coordinates in level order, and back: permuteBuffer in pack().  Both    *)
(* mode orderings are their own inverse.                                   *)
(***************************************************************************)
Permuted(t, c) == IF t \in Reversed THEN Reverse(c) ELSE c

PermutedAll(t, q) == [i \in DOMAIN q |-> [q[i] EXCEPT !.at = Permuted(t, @)]]

\* lexicographicalCmp() with the given width.
Less(width, a, b) ==
    \E i \in 1..width : a[i] < b[i] /\ \A j \in 1..(i - 1) : a[j] = b[j]

LeastOf(a, b) == IF a <= b THEN a ELSE b

(***************************************************************************)
(* What qsort() may leave when its comparator never compared fewer than    *)
(* width coordinates, and sometimes no more: any order that is ascending   *)
(* in those.  With the full width there is one, up to components at the    *)
(* same coordinates.                                                       *)
(***************************************************************************)
Sorts(t, q, width) ==
    LET n == LeastOf(width, Order[t])
    IN  {[i \in DOMAIN q |-> q[p[i]]] : p \in
            {f \in Bijection(DOMAIN q, DOMAIN q) :
                \A i, j \in DOMAIN q :
                    i < j => ~Less(n, q[f[j]].at, q[f[i]].at)}}

\* Mutant: components at the same coordinates are kept apart.
Merged_Not(q) == q

(***************************************************************************)
(* The function "pack" of the helper module: components at the same        *)
(* coordinates are added up when they follow each other in the buffer.  A  *)
(* sparse result is appended to, in a dense one the values are stored at   *)
(* their position.                                                         *)
(***************************************************************************)
AddTo(result, x) ==
    IF result # <<>> /\ Last(result).at = x.at
    THEN [result EXCEPT ![Len(result)].val = @ + x.val]
    ELSE Append(result, x)

Merged(q) ==
    LET merged[n \in 0..Len(q)] ==
            IF n = 0 THEN <<>> ELSE AddTo(merged[n - 1], q[n])
    IN  merged[Len(q)]

\* The coordinates at the positions of dense levels, there being at most two:
\* a position is the position in the level above times the dimension plus the
\* coordinate.
Positions(t) ==
    CASE Order[t] = 0 -> <<<<>>>>
      [] Order[t] = 1 -> [p \in 1..Dimension |-> <<p>>]
      [] OTHER -> [p \in 1..(Dimension * Dimension) |->
                      <<1 + ((p - 1) \div Dimension), 1 + ((p - 1) % Dimension)>>]

StoredAt(q, c) ==
    LET places == {i \in DOMAIN q : q[i].at = c}
    IN  IF places = {} THEN 0 ELSE q[Max(places)].val

PackKernel(t, q) ==
    IF t \in Dense
    THEN [i \in DOMAIN Positions(t) |->
             [at  |-> Positions(t)[i],
              val |-> StoredAt(Merged(q), Positions(t)[i])]]
    ELSE Merged(q)

(***************************************************************************)
(* The initial state: tensors that were just constructed.                  *)
(***************************************************************************)
NoIterator == [ctx |-> 0, chunk |-> <<>>, pos |-> 0]

Init ==
    /\ buffer = [t \in Tensors |-> <<>>]
    /\ used = [t \in Tensors |-> 0]
    /\ neverPacked = [t \in Tensors |-> TRUE]
    /\ needsPack = [t \in Tensors |-> TRUE]
    /\ storage = [t \in Tensors |-> <<>>]
    /\ helperFunctions = <<>>
    /\ numIntegersToCompare = 0
    /\ program \in Programs
    /\ pc = [t \in Tensors |-> "idle"]
    /\ call = [t \in Tensors |-> "none"]
    /\ goal = [t \in Tensors |-> "none"]
    /\ iter = [t \in Tensors |-> NoIterator]
    /\ narrowest = [t \in Tensors |-> 0]
    /\ total = [t \in Tensors |-> [c \in Coordinates(t) |-> 0]]
    /\ seen = [t \in Tensors |-> <<>>]

(***************************************************************************)
(* insertUnsynced(): makes room for one component if there is none and     *)
(* writes behind the used part.  The room left is unsigned: when less is   *)
(* there than is used, it is enormous and no room is made; the write then  *)
(* lands behind the buffer's end.                                          *)
(***************************************************************************)
\* Mutant: room is made only for an empty buffer.
NoRoom_Empty(t) == Len(buffer[t]) = 0

NoRoom(t) == Len(buffer[t]) = used[t]

InsertUnsynced(t, component) ==
    LET room == IF NoRoom(t) THEN Append(buffer[t], Zeroed(t)) ELSE buffer[t]
    IN  /\ buffer' = [buffer EXCEPT ![t] =
                         IF used[t] < Len(room)
                         THEN [room EXCEPT ![used[t] + 1] = component]
                         ELSE room]
        /\ used' = [used EXCEPT ![t] = @ + 1]

Inserted(t) == FoldFunction(+, 0, total[t])

Insert(t, c) ==
    /\ pc[t] = "idle"
    /\ Inserted(t) < MaxInserts[t]
    /\ Order[t] = 0 /\ ~neverPacked[t] => "scalarAgain" \in Usage
    /\ InsertUnsynced(t, [at |-> c, val |-> 1])
    /\ needsPack' = [needsPack EXCEPT ![t] = TRUE]
    /\ total' = [total EXCEPT ![t][c] = @ + 1]
    /\ UNCHANGED <<neverPacked, storage, shared, threads, seen>>

Reserve(t) ==
    /\ pc[t] = "idle"
    /\ Len(buffer[t]) + Spare <= MaxBuffer
    /\ buffer' = [buffer EXCEPT ![t] = @ \o [i \in 1..Spare |-> Zeroed(t)]]
    /\ UNCHANGED <<used, neverPacked, needsPack, storage, shared, threads,
                   ghosts>>

(***************************************************************************)
(* A client calls pack() or runs a loop over iterator(), which packs       *)
(* first.                                                                  *)
(***************************************************************************)
Goto(t, place, why) ==
    /\ pc' = [pc EXCEPT ![t] = place]
    /\ goal' = [goal EXCEPT ![t] = why]

\* Mutant: components packed before are not inserted again.
BeginPack_NoReinsert(t) ==
    /\ needsPack' = [needsPack EXCEPT ![t] = FALSE]
    /\ neverPacked' = [neverPacked EXCEPT ![t] = FALSE]
    /\ Goto(t, "lookup", "pack")

\* pack() up to its first use of a helper function.
BeginPack(t) ==
    /\ needsPack' = [needsPack EXCEPT ![t] = FALSE]
    /\ neverPacked' = [neverPacked EXCEPT ![t] = FALSE]
    /\ Goto(t, "lookup", IF neverPacked[t] THEN "pack" ELSE "reinsert")

Call(t, method) ==
    /\ pc[t] = "idle"
    /\ call' = [call EXCEPT ![t] = method]
    /\ \/ /\ needsPack[t]
          /\ BeginPack(t)
       \/ /\ ~needsPack[t]
          /\ method = "iterate"
          /\ Goto(t, "lookup", "read")
          /\ UNCHANGED <<needsPack, neverPacked>>
    /\ UNCHANGED <<buffer, used, storage, program, shared, iter, ghosts>>

(***************************************************************************)
(* getHelperFunctions(): a lookup under the mutex, the compilation without *)
(* it, and the entry under the mutex again.  The key is the format, the    *)
(* component type and the dimensions.                                      *)
(***************************************************************************)
Key(t) == <<Order[t], t \in Dense, t \in Reversed>>

Found(t) ==
    /\ pc' = [pc EXCEPT ![t] = IF goal[t] = "pack" THEN "pack" ELSE "begin"]
    /\ UNCHANGED <<components, program, call, goal, iter, numIntegersToCompare,
                   narrowest>>

Hit(t) ==
    /\ pc[t] = "lookup"
    /\ Key(t) \in Range(helperFunctions)
    /\ Found(t)
    /\ UNCHANGED <<helperFunctions, ghosts>>

Miss(t) ==
    /\ pc[t] = "lookup"
    /\ Key(t) \notin Range(helperFunctions)
    /\ pc' = [pc EXCEPT ![t] = "compile"]
    /\ UNCHANGED <<components, program, shared, call, goal, iter, ghosts>>

Cached(t) == Append(helperFunctions, Key(t))

Enter(t) ==
    /\ pc[t] = "compile"
    /\ helperFunctions' = Cached(t)
    /\ Found(t)
    /\ UNCHANGED ghosts

(***************************************************************************)
(* The iterator.  fillBuffer() resumes the generated coroutine "iterate",  *)
(* which copies at most Capacity components behind the ones it copied      *)
(* before, in the order of the levels, with their coordinates in the order *)
(* of the dimensions.  A loop ends when a chunk is empty.                  *)
(***************************************************************************)
Filled(t, it) ==
    LET end == LeastOf(it.ctx + Capacity, Len(storage[t]))
    IN  [ctx   |-> end,
         chunk |-> PermutedAll(t, SubSeq(storage[t], it.ctx + 1, end)),
         pos   |-> 0]

\* Mutant: the buffer is filled again one component too early.
Advanced_Early(t, it) ==
    IF it.pos + 1 >= Len(it.chunk) - 1
    THEN Filled(t, it)
    ELSE [it EXCEPT !.pos = @ + 1]

\* operator++.
Advanced(t, it) ==
    IF it.pos + 1 >= Len(it.chunk)
    THEN Filled(t, it)
    ELSE [it EXCEPT !.pos = @ + 1]

Begin(t) ==
    /\ pc[t] = "begin"
    /\ iter' = [iter EXCEPT ![t] = Advanced(t, NoIterator)]
    /\ pc' = [pc EXCEPT ![t] = "loop"]
    /\ seen' = [seen EXCEPT ![t] = <<>>]
    /\ UNCHANGED <<components, program, shared, call, goal, total>>

\* *it
Current(t) == iter[t].chunk[iter[t].pos + 1]

\* The body of the loop and ++it: reinsertPackedComponents() inserts, a
\* client reads.
Step(t) ==
    /\ pc[t] = "loop"
    /\ iter[t].chunk # <<>>
    /\ \/ /\ goal[t] = "reinsert"
          /\ InsertUnsynced(t, Current(t))
          /\ UNCHANGED seen
       \/ /\ goal[t] = "read"
          /\ seen' = [seen EXCEPT ![t] = Append(@, Current(t))]
          /\ UNCHANGED <<buffer, used>>
    /\ iter' = [iter EXCEPT ![t] = Advanced(t, @)]
    /\ UNCHANGED <<neverPacked, needsPack, storage, program, shared, pc, call, goal,
                   total>>

\* it == end().
End(t) ==
    /\ pc[t] = "loop"
    /\ iter[t].chunk = <<>>
    /\ iter' = [iter EXCEPT ![t] = NoIterator]
    /\ IF goal[t] = "reinsert"
       THEN Goto(t, "lookup", "pack")
       ELSE Goto(t, "read", "none")
    /\ UNCHANGED <<program, components, shared, call, ghosts>>

\* The client is done with what it read.
Return(t) ==
    /\ pc[t] = "read"
    /\ Goto(t, "idle", "none")
    /\ call' = [call EXCEPT ![t] = "none"]
    /\ seen' = [seen EXCEPT ![t] = <<>>]
    /\ UNCHANGED <<program, components, shared, iter, total>>

(***************************************************************************)
(* The rest of pack().                                                     *)
(***************************************************************************)
\* The used part of the buffer; what is behind its end could be anything.
UsedParts(t) ==
    IF used[t] <= Len(buffer[t])
    THEN {SubSeq(buffer[t], 1, used[t])}
    ELSE {buffer[t] \o junk :
             junk \in [1..(used[t] - Len(buffer[t])) -> Beyond(t)]}

Packed(t, result) ==
    /\ storage' = [storage EXCEPT ![t] = result]
    /\ IF call[t] = "iterate"
       THEN Goto(t, "lookup", "read") /\ UNCHANGED call
       ELSE Goto(t, "idle", "none") /\ call' = [call EXCEPT ![t] = "none"]
    /\ UNCHANGED <<neverPacked, program, needsPack, iter, ghosts>>

\* Scalars are not sorted, and the used part keeps its length.
PackScalar(t) ==
    /\ pc[t] = "pack"
    /\ Order[t] = 0
    /\ \E part \in UsedParts(t) :
           Packed(t, IF part = <<>> THEN <<Zeroed(t)>> ELSE Merged(part))
    /\ buffer' = [buffer EXCEPT ![t] = <<>>]
    /\ UNCHANGED <<used, shared>>

\* Permuting the coordinates and setting the width for the sort: a thread
\* that is sorting may read the new width from here on.
SetWidth(t) ==
    /\ pc[t] = "pack"
    /\ Order[t] > 0
    /\ numIntegersToCompare' = Order[t]
    /\ narrowest' = [u \in Tensors |->
                        IF u = t THEN Order[t]
                        ELSE LeastOf(narrowest[u], Order[t])]
    /\ pc' = [pc EXCEPT ![t] = "sort"]
    /\ UNCHANGED <<components, program, helperFunctions, call, goal, iter, ghosts>>

\* Mutant: the used part keeps its length, as a scalar's does.
PackSorted_UsedKept(t) ==
    /\ pc[t] = "sort"
    /\ \E part \in UsedParts(t) :
         \E q \in Sorts(t, PermutedAll(t, part), narrowest[t]) :
           Packed(t, PackKernel(t, q))
    /\ buffer' = [buffer EXCEPT ![t] = <<>>]
    /\ narrowest' = [narrowest EXCEPT ![t] = 0]
    /\ UNCHANGED <<used, helperFunctions, numIntegersToCompare>>

PackSorted(t) ==
    /\ pc[t] = "sort"
    /\ \E part \in UsedParts(t) :
         \E q \in Sorts(t, PermutedAll(t, part), narrowest[t]) :
           Packed(t, PackKernel(t, q))
    /\ buffer' = [buffer EXCEPT ![t] = <<>>]
    /\ used' = [used EXCEPT ![t] = 0]
    /\ narrowest' = [narrowest EXCEPT ![t] = 0]
    /\ UNCHANGED <<helperFunctions, numIntegersToCompare>>

(***************************************************************************)
(* The specification.                                                      *)
(***************************************************************************)
Next ==
    \E t \in program :
        \/ \E c \in Coordinates(t) : Insert(t, c)
        \/ Reserve(t)
        \/ \E method \in {"pack", "iterate"} : Call(t, method)
        \/ Hit(t) \/ Miss(t) \/ Enter(t)
        \/ Begin(t) \/ Step(t) \/ End(t) \/ Return(t)
        \/ PackScalar(t) \/ SetWidth(t) \/ PackSorted(t)

Spec == Init /\ [][Next]_vars

-----------------------------------------------------------------------------
(***************************************************************************)
(* Properties.                                                             *)
(***************************************************************************)
Component(t) == [at : Coordinates(t), val : Nat]

\* The types, that an iterator stays inside its chunk and a chunk inside the
\* iterator's buffer, and that pack() leaves nothing behind: no component waits
\* in the buffer of a tensor that says it needs no packing, but for a scalar.
TypeOK ==
    /\ \A t \in Tensors :
          /\ \A i \in DOMAIN buffer[t] : buffer[t][i] \in Component(t)
          /\ \A i \in DOMAIN storage[t] : storage[t][i] \in Component(t)
          /\ iter[t].pos <= Len(iter[t].chunk)
          /\ Len(iter[t].chunk) <= Capacity
          /\ Order[t] > 0 /\ ~needsPack[t] /\ goal[t] \notin {"pack", "reinsert"}
                => used[t] = 0
    /\ used \in [Tensors -> Nat]
    /\ neverPacked \in [Tensors -> BOOLEAN]
    /\ needsPack \in [Tensors -> BOOLEAN]
    /\ numIntegersToCompare \in 0..2
    /\ pc \in [Tensors -> {"idle", "lookup", "compile", "begin", "loop",
                           "read", "pack", "sort"}]
    /\ call \in [Tensors -> {"none", "pack", "iterate"}]
    /\ goal \in [Tensors -> {"none", "reinsert", "pack", "read"}]

\* An insert writes inside the buffer: the used part never exceeds it, except
\* in a scalar that was packed (insertUnsynced(), tensor.h).
WritesInside ==
    \A t \in Tensors :
        Order[t] > 0 \/ neverPacked[t] => used[t] <= Len(buffer[t])

\* The increment semantics of pack(): however inserts, reserve(), pack() and
\* loops alternate, a packed tensor holds at every coordinate the sum of all
\* that was ever inserted there, whatever its mode ordering and whatever the
\* other threads do meanwhile.
IncrementSemantics ==
    \A t \in Tensors :
        pc[t] = "idle" /\ ~needsPack[t] =>
            \A c \in Coordinates(t) :
                StoredAt(storage[t], Permuted(t, c)) = total[t][c]

\* The storage is ascending in the order of its levels and has every
\* coordinate once: what the merged loops over it rely on.
StorageIsSorted ==
    \A t \in Tensors : \A i \in 1..(Len(storage[t]) - 1) :
        Less(Order[t], storage[t][i].at, storage[t][i + 1].at)

\* A loop over the chunks of the iterator reads every stored component once,
\* in storage order, also when the last chunk is full.
LoopReadsAll ==
    \A t \in Tensors :
        pc[t] = "read" => seen[t] = PermutedAll(t, storage[t])
=============================================================================
