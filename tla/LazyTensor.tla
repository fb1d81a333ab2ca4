----------------------------- MODULE LazyTensor -----------------------------
(***************************************************************************)
(* The delayed-evaluation engine of taco::TensorBase (src/tensor.cpp and   *)
(* include/taco/tensor.h).  A tensor keeps a buffer of inserted            *)
(* components, a packed storage, at most one assignment, and five flags    *)
(* that say what has still to be done before the storage may be read.      *)
(* Mutating a tensor first "synchronizes" its dependents: the tensors      *)
(* whose pending assignment reads it.                                      *)
(*                                                                         *)
(* The C++ methods call each other recursively over the graph of tensors.  *)
(* `agenda' is that call stack, kept as the sequence of calls still to be  *)
(* executed: an action executes the first call and puts the calls it makes *)
(* in front of the rest.  `client' is the public method being served.      *)
(*                                                                         *)
(* A value is a set of tokens.  Every client mutation draws a fresh token  *)
(* from `clock': an insert adds its token to the value, an assignment (or  *)
(* setStorage) makes the value the singleton of its token.  A kernel that  *)
(* runs over exactly the operand values its assignment named produces the  *)
(* assignment's token; any other run produces Garbage.                     *)
(***************************************************************************)
EXTENDS Integers, Sequences, FiniteSets, SequencesExt

CONSTANTS
    Tensors,      \* the tensors of the program
    None,         \* no tensor
    Expressions,  \* the assignments the client may make
    ByHand,       \* the tensors whose stages it calls itself
    Usage,        \* the risky usage patterns the client may follow (below)
    Scalars,      \* the tensors of order zero: A = b rather than A(i) = b(i)
    Rejected,     \* operand sets whose assignments compile() throws at before
                  \* it marks the tensor compiled, such as two tensors of one name
    Unlowerable,  \* those that lower() throws at
    Uncompilable, \* those whose code the module fails to compile
    Clock         \* bound on the number of client mutations

(***************************************************************************)
(* The usage patterns the library accepts, though its flags cannot tell    *)
(* them from the well-behaved ones:                                        *)
(*   insertPending   insert into a tensor whose assignment is not computed *)
(*   insertStored    insert into a tensor whose storage was computed, or   *)
(*                   set, and never went through pack()                    *)
(*   assignBuffered  assign to a tensor that has unpacked components       *)
(*   compoundFresh   evaluate() a compound assignment to a tensor without  *)
(*                   storage                                               *)
(*   assembleComputed  assemble() after evaluate() computed a compound     *)
(*                   assignment and left the tensor to be assembled        *)
(*   setShared       setStorage() of a tensor that a pending tensor reads  *)
(*   fuseCompiled    setAssembleWhileCompute() between compile and compute *)
(***************************************************************************)
Patterns == {"insertPending", "insertStored", "assignBuffered",
             "compoundFresh", "assembleComputed", "setShared",
             "fuseCompiled"}

ASSUME TensorsAssumption == IsFiniteSet(Tensors) /\ Tensors # {}
ASSUME NoneAssumption == None \notin Tensors
ASSUME UsageAssumption == Usage \subseteq Patterns
ASSUME ScalarsAssumption == Scalars \subseteq Tensors
ASSUME FailingAssumption ==
    /\ Rejected \subseteq SUBSET Tensors
    /\ Unlowerable \subseteq SUBSET Tensors
    /\ Uncompilable \subseteq SUBSET Tensors
ASSUME ByHandAssumption == ByHand \subseteq Tensors
ASSUME ClockAssumption == Clock \in Nat

VARIABLES
    neverPacked, needsPack, needsCompile, needsAssemble, needsCompute,
    fused,        \* content->assembleWhileCompute
    buffer,       \* the components in the coordinate buffer
    storage,      \* the value the packed storage holds
    allocated,    \* does the storage own index and value arrays?
    assignment,   \* content->assignment
    kernel,       \* what content->module was compiled for
    dependents,   \* content->dependentTensors
    agenda,       \* the calls still to be executed, innermost first
    client,       \* the public method being served, or Idle
    clock,        \* tokens drawn so far
    token,        \* history: the token of the tensor's assignment
    want,         \* history: the operand values an assignment reads
    eager,        \* history: the value if nothing were ever delayed
    spoiled       \* history: was it made from what cannot be compiled?

flags  == <<neverPacked, needsPack, needsCompile, needsAssemble,
            needsCompute, fused>>
data   == <<buffer, storage, allocated>>
code   == <<assignment, kernel, dependents>>
ghosts == <<clock, token, want, eager, spoiled>>
vars   == <<flags, data, code, agenda, client, ghosts>>

(***************************************************************************)
(* Values, assignments, kernels and calls.                                 *)
(***************************************************************************)
Garbage   == 0
Values    == SUBSET (0 .. Clock)

\* An assignment is known by its operands and by whether it has a compound
\* operator (A(i) += ...).
NoOperands  == {}
Undefined   == [defined |-> FALSE, operands |-> NoOperands, compound |-> FALSE]
Rhs         == [defined : {TRUE}, operands : SUBSET Tensors,
                compound : BOOLEAN]
Assignments == Rhs \cup {Undefined}
ASSUME ExpressionsAssumption == Expressions \subseteq Rhs

\* A compiled module: the assignment it implements and whether its compute
\* function also assembles.
Kernels  == [of : Assignments, fused : BOOLEAN]
NoKernel == [of |-> Undefined, fused |-> FALSE]

Calls == {"syncValues", "compile", "assemble", "callAssemble", "compute",
          "callCompute", "removeDependent", "clearDependents"}
\* `by' is the tensor removeDependentTensor takes away; otherwise it is t.
Frames == [call : Calls, t : Tensors, by : Tensors]
Do(c, t) == [call |-> c, t |-> t, by |-> t]

Methods == {"insert", "assign", "at", "iterate", "pack", "compile",
            "assemble", "compute", "evaluate"}
Idle == [op |-> "idle", t |-> None, rhs |-> Undefined]
Requests == [op : Methods, t : Tensors, rhs : Assignments] \cup {Idle}

\* Some order in which to visit the tensors of S: the operands are kept in a
\* map ordered by the address of the tensor variable.
Orders(S) == SetToSeqs(S)

TypeOK ==
    /\ neverPacked \in [Tensors -> BOOLEAN]
    /\ needsPack \in [Tensors -> BOOLEAN]
    /\ needsCompile \in [Tensors -> BOOLEAN]
    /\ needsAssemble \in [Tensors -> BOOLEAN]
    /\ needsCompute \in [Tensors -> BOOLEAN]
    /\ fused \in [Tensors -> BOOLEAN]
    /\ buffer \in [Tensors -> Values]
    /\ storage \in [Tensors -> Values]
    /\ allocated \in [Tensors -> BOOLEAN]
    /\ assignment \in [Tensors -> Assignments]
    /\ kernel \in [Tensors -> Kernels]
    /\ dependents \in [Tensors -> Seq(Tensors)]
    /\ agenda \in Seq(Frames)
    /\ client \in Requests
    /\ agenda # <<>> => client # Idle
    /\ clock \in 0 .. Clock
    /\ token \in [Tensors -> 0 .. Clock]
    /\ want \in [Tensors -> [Tensors -> Values]]
    /\ eager \in [Tensors -> Values]
    /\ spoiled \in [Tensors -> BOOLEAN]

(***************************************************************************)
(* The constructor: nothing packed, one pack pending, no assignment.       *)
(***************************************************************************)
Init ==
    /\ neverPacked = [t \in Tensors |-> TRUE]
    /\ needsPack = [t \in Tensors |-> TRUE]
    /\ needsCompile = [t \in Tensors |-> FALSE]
    /\ needsAssemble = [t \in Tensors |-> FALSE]
    /\ needsCompute = [t \in Tensors |-> FALSE]
    /\ fused = [t \in Tensors |-> FALSE]
    /\ buffer = [t \in Tensors |-> {}]
    /\ storage = [t \in Tensors |-> {}]
    /\ allocated = [t \in Tensors |-> FALSE]
    /\ assignment = [t \in Tensors |-> Undefined]
    /\ kernel = [t \in Tensors |-> NoKernel]
    /\ dependents = [t \in Tensors |-> <<>>]
    /\ agenda = <<>>
    /\ client = Idle
    /\ clock = 0
    /\ token = [t \in Tensors |-> 0]
    /\ want = [t \in Tensors |-> [u \in Tensors |-> {}]]
    /\ eager = [t \in Tensors |-> {}]
    /\ spoiled = [t \in Tensors |-> FALSE]

(***************************************************************************)
(* Helpers.                                                                *)
(***************************************************************************)
Executing(c) == agenda # <<>> /\ Head(agenda).call = c
self == Head(agenda).t
rest == Tail(agenda)

\* A taco_uassert or a failing compilation throws: the exception unwinds the
\* whole stack and reaches the client, undoing nothing.
Throw == agenda' = <<>> /\ client' = Idle

\* Mutant: the reference is reset and its place left empty.
Without_Hole(s, t) ==
    [i \in DOMAIN s |-> IF s[i] = t /\ (\A j \in 1 .. (i - 1) : s[j] # t)
                       THEN None ELSE s[i]]

\* removeDependentTensor: drop one occurrence of t, the last element first,
\* and fill its place with the last element.
Without(s, t) ==
    LET n == Len(s)
        at == {i \in 1 .. n : s[i] = t}
        first == CHOOSE i \in at : \A j \in at : i <= j
    IN  IF at = {} THEN s
        ELSE IF n \in at THEN SubSeq(s, 1, n - 1)
        ELSE SubSeq([s EXCEPT ![first] = s[n]], 1, n - 1)

SyncAll(ops) == [i \in 1 .. Len(ops) |-> Do("syncValues", ops[i])]

\* Mutant: the dependents are forgotten, not synchronized.
SyncDependents_Forgotten(t) == <<Do("clearDependents", t)>>

\* Mutant: the list is cleared before its members are synchronized.
SyncDependents_ClearFirst(t) ==
    <<Do("clearDependents", t)>> \o SyncAll(dependents[t])

SyncDependents(t) == SyncAll(dependents[t]) \o <<Do("clearDependents", t)>>

\* compute() synchronizes each operand and then leaves its dependents.
SyncAndLeave(t, ops) ==
    [i \in 1 .. 2 * Len(ops) |->
        IF i % 2 = 1 THEN Do("syncValues", ops[(i + 1) \div 2])
        ELSE [call |-> "removeDependent", t |-> ops[i \div 2], by |-> t]]

\* Mutant: components already packed are lost.
Pack_NoReinsert(t) ==
    /\ needsPack[t]
    /\ needsPack' = [needsPack EXCEPT ![t] = FALSE]
    /\ neverPacked' = [neverPacked EXCEPT ![t] = FALSE]
    /\ storage' = [storage EXCEPT ![t] = buffer[t]]
    /\ buffer' = [buffer EXCEPT ![t] = {}]
    /\ allocated' = [allocated EXCEPT ![t] = TRUE]
    /\ UNCHANGED <<needsCompile, needsAssemble, needsCompute, fused>>

\* The body of pack(): components already packed are inserted again, except
\* the first time.
Pack(t) ==
    /\ needsPack[t]
    /\ needsPack' = [needsPack EXCEPT ![t] = FALSE]
    /\ neverPacked' = [neverPacked EXCEPT ![t] = FALSE]
    /\ storage' = [storage EXCEPT ![t] =
                      buffer[t] \cup (IF neverPacked[t] THEN {} ELSE @)]
    /\ buffer' = [buffer EXCEPT ![t] = {}]
    /\ allocated' = [allocated EXCEPT ![t] = TRUE]
    /\ UNCHANGED <<needsCompile, needsAssemble, needsCompute, fused>>

(***************************************************************************)
(* The internal calls, one action per path through each method.            *)
(***************************************************************************)
SyncPack ==
    /\ Executing("syncValues")
    /\ Pack(self)
    /\ agenda' = rest
    /\ UNCHANGED <<code, client, ghosts>>

\* Mutant: the synchronization restarts instead of computing.
SyncCompute_Restarts ==
    /\ Executing("syncValues")
    /\ ~needsPack[self]
    /\ needsCompute[self]
    /\ agenda' = <<Do("compile", self), Do("assemble", self),
                   Do("syncValues", self)>> \o rest
    /\ UNCHANGED <<flags, data, code, client, ghosts>>

SyncCompute ==
    /\ Executing("syncValues")
    /\ ~needsPack[self]
    /\ needsCompute[self]
    /\ agenda' = <<Do("compile", self), Do("assemble", self),
                   Do("compute", self)>> \o rest
    /\ UNCHANGED <<flags, data, code, client, ghosts>>

SyncNothing ==
    /\ Executing("syncValues")
    /\ ~needsPack[self]
    /\ ~needsCompute[self]
    /\ agenda' = rest
    /\ UNCHANGED <<flags, data, code, client, ghosts>>

CompileUndefined ==
    /\ Executing("compile")
    /\ ~assignment[self].defined
    /\ Throw
    /\ UNCHANGED <<flags, data, code, ghosts>>

\* The operand sets that fail to compile, at any stage.
Failing == Rejected \cup Unlowerable \cup Uncompilable

\* The checks before the flag is looked at.
CompileRejects ==
    /\ Executing("compile")
    /\ assignment[self].defined
    /\ assignment[self].operands \in Rejected
    /\ Throw
    /\ UNCHANGED <<flags, data, code, ghosts>>

CompileAlready ==
    /\ Executing("compile")
    /\ assignment[self].defined
    /\ assignment[self].operands \notin Rejected
    /\ ~needsCompile[self]
    /\ agenda' = rest
    /\ UNCHANGED <<flags, data, code, client, ghosts>>

CompileFlag == needsCompile' = [needsCompile EXCEPT ![self] = FALSE]

\* Mutant: the module is always compiled for separate assembly.
CompileKernel_NotFused ==
    /\ Executing("compile")
    /\ needsCompile[self]
    /\ assignment[self].operands \notin Failing
    /\ CompileFlag
    /\ kernel' = [kernel EXCEPT ![self] =
                     [of |-> assignment[self], fused |-> FALSE]]
    /\ agenda' = rest
    /\ UNCHANGED <<neverPacked, needsPack, needsAssemble, needsCompute, fused,
                   data, assignment, dependents, client, ghosts>>

CompileKernel ==
    /\ Executing("compile")
    /\ needsCompile[self]
    /\ assignment[self].operands \notin Failing
    /\ CompileFlag
    /\ kernel' = [kernel EXCEPT ![self] =
                     [of |-> assignment[self], fused |-> fused[self]]]
    /\ agenda' = rest
    /\ UNCHANGED <<neverPacked, needsPack, needsAssemble, needsCompute, fused,
                   data, assignment, dependents, client, ghosts>>

\* The flag was cleared: lower() throws before a new module replaces the old
\* one, or the new one fails to compile and has no function to call.
CompileThrows ==
    /\ Executing("compile")
    /\ needsCompile[self]
    /\ assignment[self].operands \in (Unlowerable \cup Uncompilable) \ Rejected
    /\ CompileFlag
    /\ kernel' = IF assignment[self].operands \in Unlowerable THEN kernel
                 ELSE [kernel EXCEPT ![self] = NoKernel]
    /\ Throw
    /\ UNCHANGED <<neverPacked, needsPack, needsAssemble, needsCompute, fused,
                   data, assignment, dependents, ghosts>>

RunUncompiled ==
    /\ Executing("assemble") \/ Executing("compute")
    /\ needsCompile[self]
    /\ Throw
    /\ UNCHANGED <<flags, data, code, ghosts>>

AssembleAlready ==
    /\ Executing("assemble")
    /\ ~needsCompile[self]
    /\ ~needsAssemble[self]
    /\ agenda' = rest
    /\ UNCHANGED <<flags, data, code, client, ghosts>>

AssembleOperands ==
    /\ Executing("assemble")
    /\ ~needsCompile[self]
    /\ needsAssemble[self]
    /\ \E ops \in Orders(assignment[self].operands) :
          agenda' = SyncAll(ops) \o <<Do("callAssemble", self)>> \o rest
    /\ UNCHANGED <<flags, data, code, client, ghosts>>

\* Calling into a module that was never compiled throws.
CallMissing ==
    /\ Executing("callAssemble") \/ Executing("callCompute")
    /\ kernel[self] = NoKernel
    /\ Throw
    /\ UNCHANGED <<flags, data, code, ghosts>>

\* The assembled arrays reach the storage only if the tensor does not
\* assemble while it computes.
CallAssemble ==
    /\ Executing("callAssemble")
    /\ kernel[self] # NoKernel
    /\ agenda' = rest
    /\ IF fused[self]
       THEN UNCHANGED <<needsAssemble, storage, allocated>>
       ELSE /\ needsAssemble' = [needsAssemble EXCEPT ![self] = FALSE]
            /\ storage' = [storage EXCEPT ![self] = {}]
            /\ allocated' = [allocated EXCEPT ![self] = TRUE]
    /\ UNCHANGED <<neverPacked, needsPack, needsCompile, needsCompute, fused,
                   buffer, code, client, ghosts>>

ComputeAlready ==
    /\ Executing("compute")
    /\ ~needsCompile[self]
    /\ ~needsCompute[self]
    /\ agenda' = rest
    /\ UNCHANGED <<flags, data, code, client, ghosts>>

\* Mutant: the flag stays up.
ComputeOperands_FlagKept ==
    /\ Executing("compute")
    /\ ~needsCompile[self]
    /\ needsCompute[self]
    /\ \E ops \in Orders(assignment[self].operands) :
          agenda' = SyncAndLeave(self, ops)
                      \o <<Do("callCompute", self)>> \o rest
    /\ UNCHANGED <<flags, data, code, client, ghosts>>

\* The flag falls before the operands are synchronized.
ComputeOperands ==
    /\ Executing("compute")
    /\ ~needsCompile[self]
    /\ needsCompute[self]
    /\ needsCompute' = [needsCompute EXCEPT ![self] = FALSE]
    /\ \E ops \in Orders(assignment[self].operands) :
          agenda' = SyncAndLeave(self, ops)
                      \o <<Do("callCompute", self)>> \o rest
    /\ UNCHANGED <<neverPacked, needsPack, needsCompile, needsAssemble, fused,
                   data, code, client, ghosts>>

\* Mutant: every dependent leaves.
RemoveDependent_All ==
    /\ Executing("removeDependent")
    /\ dependents' = [dependents EXCEPT ![self] = <<>>]
    /\ agenda' = rest
    /\ UNCHANGED <<flags, data, assignment, kernel, client, ghosts>>

RemoveDependent ==
    /\ Executing("removeDependent")
    /\ dependents' = [dependents EXCEPT ![self] =
                         Without(@, Head(agenda).by)]
    /\ agenda' = rest
    /\ UNCHANGED <<flags, data, assignment, kernel, client, ghosts>>

ClearDependents ==
    /\ Executing("clearDependents")
    /\ dependents' = [dependents EXCEPT ![self] = <<>>]
    /\ agenda' = rest
    /\ UNCHANGED <<flags, data, assignment, kernel, client, ghosts>>

\* Can the compute function of t write its result somewhere?
HasSpace(t) == kernel[t].fused \/ allocated[t]

\* The value a run of t's compute function leaves behind.
KernelResult(t) ==
    IF /\ kernel[t].of = assignment[t]
       /\ HasSpace(t)
       /\ \A u \in assignment[t].operands : storage[u] = want[t][u]
    THEN {token[t]}
    ELSE {Garbage}

\* A fused compute function allocates its own result, which reaches the
\* storage only if the tensor still assembles while it computes.
CallCompute ==
    /\ Executing("callCompute")
    /\ kernel[self] # NoKernel
    /\ agenda' = rest
    /\ storage' = [storage EXCEPT ![self] =
                      IF kernel[self].fused /\ ~fused[self]
                      THEN @ ELSE KernelResult(self)]
    /\ IF fused[self]
       THEN /\ needsAssemble' = [needsAssemble EXCEPT ![self] = FALSE]
            /\ allocated' = [allocated EXCEPT ![self] =
                                @ \/ kernel[self].fused]
       ELSE UNCHANGED <<needsAssemble, allocated>>
    /\ UNCHANGED <<neverPacked, needsPack, needsCompile, needsCompute, fused,
                   buffer, code, client, ghosts>>

(***************************************************************************)
(* The tails of the public methods, run when the calls they made are done. *)
(***************************************************************************)
Returning(op) == agenda = <<>> /\ client.op = op

FinishInsert ==
    /\ Returning("insert")
    /\ LET t == client.t IN
       /\ buffer' = [buffer EXCEPT ![t] = @ \cup {clock + 1}]
       /\ needsPack' = [needsPack EXCEPT ![t] = TRUE]
       /\ eager' = [eager EXCEPT ![t] = @ \cup {clock + 1}]
    /\ clock' = clock + 1
    /\ client' = Idle
    /\ UNCHANGED <<neverPacked, needsCompile, needsAssemble, needsCompute,
                   fused, storage, allocated, code, agenda, token, want,
                   spoiled>>

\* Mutant: t does not join the dependents of its new operands.
Rewired_NotJoined(t, rhs) ==
    [u \in Tensors |->
        IF needsCompute[t] /\ u \in assignment[t].operands
        THEN Without(dependents[u], t) ELSE dependents[u]]

\* t leaves the dependents of its old operands, if its old assignment was
\* still pending and differs, and joins those of its new operands.
Rewired(t, rhs) ==
    [u \in Tensors |->
        LET left == IF /\ assignment[t] # rhs
                       /\ needsCompute[t]
                       /\ u \in assignment[t].operands
                    THEN Without(dependents[u], t)
                    ELSE dependents[u]
        IN  IF u \in rhs.operands THEN Append(left, t) ELSE left]

\* TensorBase::operator= of a scalar only joins the dependents of the new
\* operands.
Joined(t, rhs) ==
    [u \in Tensors |-> IF u \in rhs.operands THEN Append(dependents[u], t)
                       ELSE dependents[u]]

\* Is the compiled module of t of no use for its new assignment?
\* Mutant: only the first assignment is compiled.
NeedsNewKernel_First(t, rhs) == ~assignment[t].defined
NeedsNewKernel(t, rhs) == assignment[t] # rhs

\* Can rhs not be compiled, or does it read what was made from such an
\* assignment?
Spoils(rhs) ==
    rhs.operands \in Failing \/ \E u \in rhs.operands : spoiled[u]

FinishAssign ==
    /\ Returning("assign")
    /\ LET t == client.t
           rhs == client.rhs
       IN
       /\ needsPack' = [needsPack EXCEPT ![t] = FALSE]
       /\ needsCompile' = [needsCompile EXCEPT ![t] =
                              @ \/ NeedsNewKernel(t, rhs)]
       /\ needsAssemble' = [needsAssemble EXCEPT ![t] = TRUE]
       /\ needsCompute' = [needsCompute EXCEPT ![t] = TRUE]
       /\ \/ dependents' = Rewired(t, rhs)
          \/ /\ t \in Scalars /\ ~rhs.compound
             /\ dependents' = Joined(t, rhs)
       /\ assignment' = [assignment EXCEPT ![t] = rhs]
       /\ token' = [token EXCEPT ![t] = clock + 1]
       /\ want' = [want EXCEPT ![t] =
                      [u \in Tensors |->
                          IF u \in rhs.operands THEN eager[u] ELSE {}]]
       /\ eager' = [eager EXCEPT ![t] = {clock + 1}]
       /\ spoiled' = [spoiled EXCEPT ![t] = Spoils(rhs)]
    /\ clock' = clock + 1
    /\ client' = Idle
    /\ UNCHANGED <<neverPacked, fused, data, kernel, agenda>>

Return ==
    /\ \E op \in Methods \ {"insert", "assign"} : Returning(op)
    /\ client' = Idle
    /\ UNCHANGED <<flags, data, code, agenda, ghosts>>

(***************************************************************************)
(* The client.                                                             *)
(***************************************************************************)
Call(op, t, rhs, calls) ==
    /\ client = Idle
    /\ client' = [op |-> op, t |-> t, rhs |-> rhs]
    /\ agenda' = calls
    /\ UNCHANGED <<flags, data, code, ghosts>>

Insert(t) ==
    /\ clock < Clock
    /\ needsCompute[t] => "insertPending" \in Usage
    /\ neverPacked[t] /\ storage[t] # {} => "insertStored" \in Usage
    /\ Call("insert", t, Undefined, SyncDependents(t))

\* A(i) = A(i) + ... synchronizes A while it assembles A, without end: the
\* client never puts a tensor on both sides.
Assign(t, rhs) ==
    /\ clock < Clock
    /\ t \notin rhs.operands
    /\ buffer[t] # {} => "assignBuffered" \in Usage
    /\ Call("assign", t, rhs, SyncDependents(t))

\* at() synchronizes and then builds an iterator, which synchronizes again.
At(t) == Call("at", t, Undefined,
              <<Do("syncValues", t), Do("syncValues", t)>>)
\* Mutant: the iterator is built on the storage as it is.
Iterate_Unsynced(t) == Call("iterate", t, Undefined, <<>>)

Iterate(t) == Call("iterate", t, Undefined, <<Do("syncValues", t)>>)

Evaluate(t) ==
    /\ LET plus == assignment[t].compound IN
       /\ plus /\ ~allocated[t] /\ ~fused[t] => "compoundFresh" \in Usage
       /\ Call("evaluate", t, Undefined,
               IF plus THEN <<Do("compile", t), Do("compute", t)>>
               ELSE <<Do("compile", t), Do("assemble", t), Do("compute", t)>>)

CompileTensor(t) ==
    /\ t \in ByHand
    /\ Call("compile", t, Undefined, <<Do("compile", t)>>)

AssembleTensor(t) ==
    /\ t \in ByHand
    /\ needsAssemble[t] /\ ~needsCompute[t] => "assembleComputed" \in Usage
    /\ Call("assemble", t, Undefined, <<Do("assemble", t)>>)

\* The three stages are called in order.
ComputeTensor(t) ==
    /\ t \in ByHand
    /\ ~needsAssemble[t] \/ fused[t]
    /\ Call("compute", t, Undefined, <<Do("compute", t)>>)

PackTensor(t) ==
    /\ client = Idle
    /\ Pack(t)
    /\ UNCHANGED <<code, agenda, client, ghosts>>

SetAssembleWhileCompute(t) ==
    /\ client = Idle
    /\ t \in ByHand
    /\ assignment[t].defined /\ ~needsCompile[t]
          => "fuseCompiled" \in Usage
    /\ fused' = [fused EXCEPT ![t] = ~@]
    /\ UNCHANGED <<neverPacked, needsPack, needsCompile, needsAssemble,
                   needsCompute, data, code, agenda, client, ghosts>>

\* setStorage() replaces the storage and looks at nothing else.
Unsettled(t) ==
    \/ needsCompute[t]
    \/ buffer[t] # {}
    \/ \E u \in Tensors : needsCompute[u] /\ t \in assignment[u].operands

SetStorage(t) ==
    /\ client = Idle
    /\ clock < Clock
    /\ Unsettled(t) => "setShared" \in Usage
    /\ needsPack' = [needsPack EXCEPT ![t] = FALSE]
    /\ storage' = [storage EXCEPT ![t] = {clock + 1}]
    /\ allocated' = [allocated EXCEPT ![t] = TRUE]
    /\ eager' = [eager EXCEPT ![t] = {clock + 1}]
    /\ clock' = clock + 1
    /\ UNCHANGED <<neverPacked, needsCompile, needsAssemble, needsCompute,
                   fused, buffer, code, agenda, client, token, want, spoiled>>

Internal ==
    \/ SyncPack \/ SyncCompute \/ SyncNothing
    \/ CompileUndefined \/ CompileRejects \/ CompileAlready
    \/ CompileKernel \/ CompileThrows
    \/ RunUncompiled
    \/ AssembleAlready \/ AssembleOperands \/ CallAssemble
    \/ ComputeAlready \/ ComputeOperands \/ CallCompute
    \/ CallMissing
    \/ RemoveDependent \/ ClearDependents
    \/ FinishInsert \/ FinishAssign \/ Return

Client(t) ==
    \/ Insert(t) \/ At(t) \/ Iterate(t) \/ Evaluate(t)
    \/ CompileTensor(t) \/ AssembleTensor(t) \/ ComputeTensor(t)
    \/ PackTensor(t) \/ SetAssembleWhileCompute(t) \/ SetStorage(t)
    \/ \E rhs \in Expressions : Assign(t, rhs)

Next == Internal \/ \E t \in Tensors : Client(t)

\* The methods run to completion on the client's thread.
Fairness == WF_vars(Internal)

Spec == Init /\ [][Next]_vars /\ Fairness

-----------------------------------------------------------------------------
(***************************************************************************)
(* Properties.                                                             *)
(***************************************************************************)

\* A read returns exactly what it would return had every insert, assignment
\* and setStorage been carried out at once: at() and the iterators find the
\* storage settled after TensorBase::syncValues (tensor.cpp:667).
ReadIsEager ==
    Returning("at") \/ Returning("iterate")
        => storage[client.t] = eager[client.t]

\* A delayed assignment still reads what it named: no operand of a tensor
\* that needs computing changed since the assignment, because the tensor is
\* registered with each of them (tensor.cpp:522-525) and every mutation of
\* an operand synchronizes it first (tensor.cpp:714).
PendingIsCurrent ==
    \A t \in Tensors : needsCompute[t] =>
        \A u \in assignment[t].operands :
            want[t][u] = eager[u] /\ t \in Range(dependents[u])

\* Delayed assignments never read each other in a circle, although the
\* assignments themselves may (A = B then B = A): a pending tensor only waits
\* for tensors assigned before it.  The recursion of syncValues, assemble
\* and compute (tensor.cpp:667-832) ends because of it.
PendingAcyclic ==
    \A t, u \in Tensors :
        needsCompute[t] /\ needsCompute[u] /\ u \in assignment[t].operands
            => token[u] < token[t]

\* A tensor that says it needs no compilation holds the kernels of its own
\* assignment (tensor.h:431 "True if the Tensor needs to be compiled").
KernelIsCurrent ==
    \A t \in Tensors : assignment[t].defined /\ ~needsCompile[t]
        => kernel[t].of = assignment[t]

\* The compute function is only called with arrays to write into: it
\* allocates them itself, or a pack or an assemble call has done so
\* (tensor.cpp:790-855).
ComputeHasSpace ==
    Executing("callCompute") => kernel[self].fused = fused[self] /\ HasSpace(self)

\* No assignment is computed twice, whatever mixture of reads, explicit
\* stages and synchronizations reaches the tensor (tensor.cpp:811-816).
ComputedOnce ==
    [][agenda # <<>> /\ Head(agenda).call = "callCompute"
         => storage[self] # {token[self]}]_vars

\* The value a tensor will have once everything it owes has been done.
Owed(t) == needsCompute[t] \/ \E i \in DOMAIN agenda :
                                  agenda[i] = Do("callCompute", t)
Logical(t) ==
    IF needsPack[t] THEN buffer[t] \cup (IF neverPacked[t] THEN {}
                                         ELSE storage[t])
    ELSE IF Owed(t) THEN {token[t]} ELSE storage[t]

\* The engine implements tensors that are never delayed: packing, compiling,
\* assembling, computing and synchronizing are invisible, and an insert or
\* an assignment takes effect in one step.
Eager == INSTANCE EagerTensor WITH value <- [t \in Tensors |-> Logical(t)]
ImplementsEager == Eager!Spec

\* A compilation that throws out of a chain of synchronizations leaves the
\* tensors that were not made from the failing assignment as they should be:
\* a read of them returns what it would return had nothing been delayed,
\* whatever the exception interrupted (tensor.cpp:588-661, 714-720).
FailureIsIsolated ==
    (Returning("at") \/ Returning("iterate")) /\ ~spoiled[client.t]
        => storage[client.t] = eager[client.t]

\* Every public method returns: the recursion over the tensors ends.
CallReturns == client # Idle ~> client = Idle
=============================================================================
