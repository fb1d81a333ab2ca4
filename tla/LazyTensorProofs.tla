-------------------------- MODULE LazyTensorProofs --------------------------
(***************************************************************************)
(* Theorems about LazyTensor, for any number of tensors, any set of        *)
(* expressions and any usage: the types, that a kernel is current whenever *)
(* no compilation throws, that a delayed assignment still reads what it    *)
(* named, and that delayed assignments never wait for each other in a      *)
(* circle, with compilations that may throw at any point.  And what the    *)
(* engine promises a well-behaved client (Usage = {}): a read of a tensor  *)
(* that was not made from an assignment that fails to compile returns the  *)
(* value nothing was ever delayed for, whatever exceptions interrupted;    *)
(* when every assignment compiles the engine implements EagerTensor, and   *)
(* every computation finds its operands done and its arrays in place.      *)
(***************************************************************************)
EXTENDS LazyTensor, FiniteSetTheorems, SequenceTheorems, WellFoundedInduction, TLAPS

USE TensorsAssumption, NoneAssumption, UsageAssumption,
    ByHandAssumption, ClockAssumption, ExpressionsAssumption

(***************************************************************************)
(* What the helpers on sequences return.                                   *)
(***************************************************************************)
\* A list of syncValues calls is a list of calls.
LEMMA SyncAllType ==
    ASSUME NEW ops \in Seq(Tensors)
    PROVE  SyncAll(ops) \in Seq(Frames)
<1>1. Len(ops) \in Nat /\ \A i \in 1 .. Len(ops) : ops[i] \in Tensors
  BY LenProperties, ElementOfSeq
<1>2. \A i \in 1 .. Len(ops) : Do("syncValues", ops[i]) \in Frames
  BY <1>1 DEF Do, Frames, Calls
<1>3. SyncAll(ops) \in [1 .. Len(ops) -> Frames]
  BY <1>2 DEF SyncAll
<1>4. QED
  BY <1>1, <1>3, SeqDef

\* The calls that precede a mutation of t (tensor.cpp:714-720).
LEMMA SyncDependentsType ==
    ASSUME TypeOK, NEW t \in Tensors
    PROVE  SyncDependents(t) \in Seq(Frames)
<1>1. SyncAll(dependents[t]) \in Seq(Frames)
  BY SyncAllType DEF TypeOK
<1>2. <<Do("clearDependents", t)>> \in Seq(Frames)
  BY DEF Do, Frames, Calls
<1>3. QED
  BY <1>1, <1>2, ConcatProperties DEF SyncDependents

\* Every order of operands is a sequence of tensors (tensor.cpp:722-758).
LEMMA OrdersType ==
    ASSUME NEW S \in SUBSET Tensors, NEW ops \in Orders(S)
    PROVE  ops \in Seq(Tensors)
<1>1. Cardinality(S) \in Nat
  BY FS_Subset, FS_CardinalityType
<1>2. ops \in [1 .. Cardinality(S) -> S]
  BY DEF Orders, SetToSeqs
<1>3. ops \in [1 .. Cardinality(S) -> Tensors]
  BY <1>2
<1>4. QED
  BY <1>1, <1>3, SeqDef

\* The calls compute() makes before it runs the kernel (tensor.cpp:817-822).
LEMMA SyncAndLeaveType ==
    ASSUME NEW t \in Tensors, NEW ops \in Seq(Tensors)
    PROVE  SyncAndLeave(t, ops) \in Seq(Frames)
<1>1. Len(ops) \in Nat /\ \A i \in 1 .. Len(ops) : ops[i] \in Tensors
  BY LenProperties, ElementOfSeq
<1>2. ASSUME NEW i \in 1 .. 2 * Len(ops)
      PROVE  (IF i % 2 = 1 THEN Do("syncValues", ops[(i + 1) \div 2])
              ELSE [call |-> "removeDependent", t |-> ops[i \div 2], by |-> t])
                \in Frames
  <2>1. i % 2 = 1 => (i + 1) \div 2 \in 1 .. Len(ops)
    BY <1>1
  <2>2. i % 2 # 1 => i \div 2 \in 1 .. Len(ops)
    BY <1>1
  <2>3. CASE i % 2 = 1
    BY <1>1, <2>1, <2>3 DEF Do, Frames, Calls
  <2>4. CASE i % 2 # 1
    BY <1>1, <2>2, <2>4 DEF Frames, Calls
  <2>5. QED
    BY <2>3, <2>4
<1>3. SyncAndLeave(t, ops) \in [1 .. 2 * Len(ops) -> Frames]
  BY <1>2 DEF SyncAndLeave
<1>4. 2 * Len(ops) \in Nat
  BY <1>1
<1>5. QED
  BY <1>3, <1>4, SeqDef

\* Removing one occurrence leaves a list of tensors (tensor.cpp:681-702).
LEMMA WithoutType ==
    ASSUME NEW s \in Seq(Tensors), NEW t \in Tensors
    PROVE  Without(s, t) \in Seq(Tensors)
<1> DEFINE n == Len(s)
           at == {i \in 1 .. n : s[i] = t}
           first == CHOOSE i \in at : \A j \in at : i <= j
           swapped == [s EXCEPT ![first] = s[n]]
<1>1. n \in Nat /\ s \in [1 .. n -> Tensors]
  BY LenProperties
<1>2. CASE at = {}
  BY <1>2 DEF Without
<1>3. CASE n \in at
  <2>1. SubSeq(s, 1, n - 1) \in Seq(Tensors)
    BY <1>1, SubSeqProperties
  <2>2. QED
    BY <1>3, <2>1 DEF Without
<1>4. CASE at # {} /\ n \notin at
  <2>1. n \in 1 .. n
    BY <1>1, <1>4
  <2>2. swapped \in [1 .. n -> Tensors]
    BY <1>1, <2>1
  <2>3. SubSeq(swapped, 1, n - 1) \in Seq(Tensors)
    <3> HIDE DEF swapped
    <3>1. n - 1 \in Int /\ 1 \in Int /\ \A i \in 1 .. n - 1 : swapped[i] \in Tensors
      BY <1>1, <2>2
    <3>2. QED
      BY <3>1, SubSeqProperties
  <2>4. QED
    BY <1>4, <2>3 DEF Without
<1>5. QED
  BY <1>2, <1>3, <1>4

\* Assigning to t leaves lists of tensors (tensor.cpp:500-530).
LEMMA RewiredType ==
    ASSUME TypeOK, NEW t \in Tensors, NEW rhs
    PROVE  Rewired(t, rhs) \in [Tensors -> Seq(Tensors)]
<1> SUFFICES ASSUME NEW u \in Tensors
             PROVE  Rewired(t, rhs)[u] \in Seq(Tensors)
  BY DEF Rewired
<1>1. dependents[u] \in Seq(Tensors)
  BY DEF TypeOK
<1>2. Without(dependents[u], t) \in Seq(Tensors)
  BY <1>1, WithoutType
<1>3. \A left \in Seq(Tensors) : Append(left, t) \in Seq(Tensors)
  BY AppendProperties
<1>4. QED
  BY <1>1, <1>2, <1>3 DEF Rewired

\* So does assigning to a scalar (tensor.cpp:842-863).
LEMMA JoinedType ==
    ASSUME TypeOK, NEW t \in Tensors, NEW rhs
    PROVE  Joined(t, rhs) \in [Tensors -> Seq(Tensors)]
<1>1. \A u \in Tensors : dependents[u] \in Seq(Tensors)
  BY DEF TypeOK
<1>2. \A list \in Seq(Tensors) : Append(list, t) \in Seq(Tensors)
  BY AppendProperties
<1>3. QED
  BY <1>1, <1>2 DEF Joined

\* The call being executed and those still to be.
LEMMA StackType ==
    ASSUME TypeOK, agenda # <<>>
    PROVE  /\ self \in Tensors /\ Head(agenda).by \in Tensors
           /\ rest \in Seq(Frames)
           /\ client # Idle
<1>1. Head(agenda) \in Frames /\ Tail(agenda) \in Seq(Frames)
  BY HeadTailProperties DEF TypeOK
<1>2. QED
  BY <1>1 DEF TypeOK, Frames, self, rest

\* A request is of a tensor.
LEMMA RequestType ==
    ASSUME TypeOK, NEW op \in Methods, client.op = op
    PROVE  client.t \in Tensors /\ client.rhs \in Assignments /\ client # Idle
<1>1. Idle.op \notin Methods
  BY DEF Idle, Methods
<1>2. QED
  BY <1>1 DEF TypeOK, Requests

(***************************************************************************)
(* The type invariant.  It is inductive together with the bound on the     *)
(* clock: a request that draws a token was made while one was left.        *)
(***************************************************************************)
ClockRoom == client.op \in {"insert", "assign"} => clock < Clock
TypeInvariant == TypeOK /\ ClockRoom

\* The constructor establishes the types.
LEMMA InitTypeInvariant == Init => TypeInvariant
<1> SUFFICES ASSUME Init PROVE TypeInvariant
  OBVIOUS
<1>1. <<>> \in Seq(Tensors) /\ <<>> \in Seq(Frames)
  BY EmptySeq
<1>2. Undefined \in Assignments /\ NoKernel \in Kernels
  BY DEF Assignments, Kernels, NoKernel
<1>3. {} \in Values /\ 0 \in 0 .. Clock
  BY DEF Values
<1>4. TypeOK
  BY <1>1, <1>2, <1>3 DEF Init, TypeOK, Requests
<1>5. ClockRoom
  BY DEF Init, ClockRoom, Idle
<1>6. QED
  BY <1>4, <1>5 DEF TypeInvariant

\* The calls the methods put on the stack are calls.
LEMMA DoType ==
    ASSUME NEW c \in Calls, NEW t \in Tensors
    PROVE  Do(c, t) \in Frames
BY DEF Do, Frames

\* The operands of an assignment are tensors.
LEMMA OperandsType ==
    ASSUME TypeOK, NEW t \in Tensors
    PROVE  assignment[t].operands \in SUBSET Tensors
<1>1. assignment[t] \in Assignments
  BY DEF TypeOK
<1>2. CASE assignment[t] \in Rhs
  BY <1>2 DEF Rhs
<1>3. CASE assignment[t] = Undefined
  BY <1>3 DEF Undefined, NoOperands
<1>4. QED
  BY <1>1, <1>2, <1>3 DEF Assignments

\* Executing a call of the stack keeps the types (tensor.cpp:588-855).
LEMMA InternalTypes ==
    ASSUME TypeInvariant, Internal, agenda # <<>>
    PROVE  TypeInvariant'
<1> USE DEF TypeInvariant
<1>1. /\ self \in Tensors /\ Head(agenda).by \in Tensors
      /\ rest \in Seq(Frames) /\ client # Idle
  BY StackType
<1>2. <<>> \in Seq(Frames) /\ <<>> \in Seq(Tensors)
  BY EmptySeq
<1>3. \A op : ~Returning(op)
  BY DEF Returning
<1>4. ClockRoom'
  <2>1. (client' = client \/ client' = Idle) /\ clock' = clock
    BY <1>3 DEF Internal, SyncPack, SyncCompute, SyncNothing,
       CompileUndefined, CompileRejects, CompileAlready, CompileKernel,
       CompileThrows,
       RunUncompiled, AssembleAlready, AssembleOperands, CallAssemble,
       ComputeAlready, ComputeOperands, CallCompute, CallMissing,
       RemoveDependent, ClearDependents, FinishInsert, FinishAssign, Return,
       Throw, ghosts
  <2>2. QED
    BY <2>1 DEF ClockRoom, Idle
<1>5. SUFFICES TypeOK'
  BY <1>4
<1>6. CASE SyncPack
  <2>1. buffer[self] \cup (IF neverPacked[self] THEN {} ELSE storage[self])
            \in Values /\ {} \in Values
    BY <1>1 DEF TypeOK, Values
  <2>2. QED
    BY <1>1, <1>6, <2>1 DEF SyncPack, Pack, TypeOK, code, ghosts
<1>7. CASE SyncCompute
  <2>1. <<Do("compile", self), Do("assemble", self), Do("compute", self)>>
            \in Seq(Frames)
    BY <1>1, DoType DEF Calls
  <2>2. agenda' \in Seq(Frames)
    BY <1>1, <1>7, <2>1, ConcatProperties DEF SyncCompute
  <2>3. QED
    BY <1>1, <1>7, <2>2 DEF SyncCompute, TypeOK, flags, data, code, ghosts
<1>8. CASE SyncNothing \/ CompileAlready \/ AssembleAlready \/ ComputeAlready
  BY <1>1, <1>8 DEF SyncNothing, CompileAlready, AssembleAlready,
     ComputeAlready, TypeOK, flags, data, code, ghosts
<1>9. CASE \/ CompileUndefined \/ CompileRejects \/ RunUncompiled
           \/ CallMissing
  BY <1>1, <1>2, <1>9 DEF CompileUndefined, CompileRejects, RunUncompiled,
     CallMissing, Throw, TypeOK, flags, data, code, ghosts, Requests
<1>10. CASE CompileKernel
  <2>1. [of |-> assignment[self], fused |-> fused[self]] \in Kernels
    BY <1>1 DEF TypeOK, Kernels
  <2>2. QED
    BY <1>1, <1>10, <2>1 DEF CompileKernel, CompileFlag, TypeOK, data, ghosts
<1>11. CASE CompileThrows
  <2>1. NoKernel \in Kernels
    BY DEF NoKernel, Kernels, Undefined, Assignments
  <2>2. kernel' \in [Tensors -> Kernels]
    BY <1>1, <1>11, <2>1 DEF CompileThrows, TypeOK
  <2>3. QED
    BY <1>1, <1>2, <1>11, <2>2 DEF CompileThrows, CompileFlag, Throw, TypeOK,
       data, ghosts, Requests
<1>12. CASE AssembleOperands
  <2>1. PICK ops \in Orders(assignment[self].operands) :
            agenda' = SyncAll(ops) \o <<Do("callAssemble", self)>> \o rest
    BY <1>12 DEF AssembleOperands
  <2>2. assignment[self].operands \in SUBSET Tensors
    BY <1>1, OperandsType
  <2>3. SyncAll(ops) \in Seq(Frames)
    BY <2>1, <2>2, OrdersType, SyncAllType
  <2>4. <<Do("callAssemble", self)>> \in Seq(Frames)
    BY <1>1, DoType DEF Calls
  <2>5. SyncAll(ops) \o <<Do("callAssemble", self)>> \in Seq(Frames)
    BY <2>3, <2>4, ConcatProperties
  <2>6. agenda' \in Seq(Frames)
    BY <1>1, <2>1, <2>5, ConcatProperties
  <2>7. QED
    BY <1>1, <1>12, <2>6 DEF AssembleOperands, TypeOK, flags, data, code,
       ghosts
<1>13. CASE CallAssemble
  <2>1. {} \in Values
    BY DEF Values
  <2>2. CASE fused[self]
    BY <1>1, <1>13, <2>2 DEF CallAssemble, TypeOK, code, ghosts
  <2>3. CASE ~fused[self]
    <3>1. /\ needsAssemble' = [needsAssemble EXCEPT ![self] = FALSE]
          /\ storage' = [storage EXCEPT ![self] = {}]
          /\ allocated' = [allocated EXCEPT ![self] = TRUE]
      BY <1>13, <2>3 DEF CallAssemble
    <3>2. /\ needsAssemble' \in [Tensors -> BOOLEAN]
          /\ storage' \in [Tensors -> Values]
          /\ allocated' \in [Tensors -> BOOLEAN]
      BY <2>1, <3>1 DEF TypeOK
    <3>3. QED
      BY <1>1, <1>13, <3>2 DEF CallAssemble, TypeOK, code, ghosts
  <2>4. QED
    BY <2>2, <2>3
<1>14. CASE ComputeOperands
  <2>1. PICK ops \in Orders(assignment[self].operands) :
            agenda' = SyncAndLeave(self, ops)
                         \o <<Do("callCompute", self)>> \o rest
    BY <1>14 DEF ComputeOperands
  <2>2. assignment[self].operands \in SUBSET Tensors
    BY <1>1, OperandsType
  <2>3. SyncAndLeave(self, ops) \in Seq(Frames)
    BY <1>1, <2>1, <2>2, OrdersType, SyncAndLeaveType
  <2>4. <<Do("callCompute", self)>> \in Seq(Frames)
    BY <1>1, DoType DEF Calls
  <2>5. SyncAndLeave(self, ops) \o <<Do("callCompute", self)>> \in Seq(Frames)
    BY <2>3, <2>4, ConcatProperties
  <2>6. agenda' \in Seq(Frames)
    BY <1>1, <2>1, <2>5, ConcatProperties
  <2>7. QED
    BY <1>1, <1>14, <2>6 DEF ComputeOperands, TypeOK, data, code, ghosts
<1>15. CASE CallCompute
  <2>1. {Garbage} \in Values /\ {token[self]} \in Values
    BY <1>1 DEF TypeOK, Values, Garbage
  <2>2. KernelResult(self) \in Values
    BY <2>1 DEF KernelResult
  <2>3. allocated[self] \in BOOLEAN /\ kernel[self].fused \in BOOLEAN
    BY <1>1 DEF TypeOK, Kernels
  <2>4. (allocated[self] \/ kernel[self].fused) \in BOOLEAN
    OBVIOUS
  <2>5. QED
    BY <1>1, <1>15, <2>2, <2>4 DEF CallCompute, TypeOK, code, ghosts
<1>16. CASE RemoveDependent
  <2>1. Without(dependents[self], Head(agenda).by) \in Seq(Tensors)
    BY <1>1, WithoutType DEF TypeOK
  <2>2. QED
    BY <1>1, <1>16, <2>1 DEF RemoveDependent, TypeOK, flags, data, ghosts
<1>17. CASE ClearDependents
  BY <1>1, <1>2, <1>17 DEF ClearDependents, TypeOK, flags, data, ghosts
<1>18. QED
  BY <1>3, <1>6, <1>7, <1>8, <1>9, <1>10, <1>11, <1>12, <1>13, <1>14, <1>15,
     <1>16, <1>17 DEF Internal, FinishInsert, FinishAssign, Return

\* The tails of insert, of the assignments and of the other methods keep the
\* types (tensor.h:605-640, tensor.cpp:500-530).
LEMMA ReturnTypes ==
    ASSUME TypeInvariant, Internal, agenda = <<>>
    PROVE  TypeInvariant'
<1> USE DEF TypeInvariant
<1>1. \A c : ~Executing(c)
  BY DEF Executing
<1>2. FinishInsert \/ FinishAssign \/ Return
  BY <1>1 DEF Internal, SyncPack, SyncCompute, SyncNothing,
     CompileUndefined, CompileRejects, CompileAlready, CompileKernel,
     CompileThrows,
     RunUncompiled, AssembleAlready, AssembleOperands, CallAssemble,
     ComputeAlready, ComputeOperands, CallCompute, CallMissing,
     RemoveDependent, ClearDependents
<1>3. CASE FinishInsert
  <2>1. client.t \in Tensors
    BY <1>3, RequestType DEF FinishInsert, Returning, Methods
  <2>2. clock + 1 \in 0 .. Clock
    BY <1>3 DEF TypeOK, ClockRoom, FinishInsert, Returning
  <2>3. \A v \in Values : v \cup {clock + 1} \in Values
    BY <2>2 DEF Values
  <2>4. TypeOK'
    BY <1>3, <2>1, <2>2, <2>3 DEF FinishInsert, TypeOK, Requests, code
  <2>5. QED
    BY <1>3, <2>4 DEF FinishInsert, ClockRoom, Idle
<1>4. CASE FinishAssign
  <2>1. client.t \in Tensors /\ client.rhs \in Assignments
    BY <1>4, RequestType DEF FinishAssign, Returning, Methods
  <2>2. clock + 1 \in 0 .. Clock
    BY <1>4 DEF TypeOK, ClockRoom, FinishAssign, Returning
  <2>3. {clock + 1} \in Values /\ {} \in Values
    BY <2>2 DEF Values
  <2>4. dependents' \in [Tensors -> Seq(Tensors)]
    BY <1>4, <2>1, RewiredType, JoinedType DEF FinishAssign
  <2>5. /\ (needsCompile[client.t] \/ NeedsNewKernel(client.t, client.rhs))
              \in BOOLEAN
         /\ Spoils(client.rhs) \in BOOLEAN
    BY DEF NeedsNewKernel, Spoils
  <2>6. [u \in Tensors |-> IF u \in client.rhs.operands THEN eager[u] ELSE {}]
            \in [Tensors -> Values]
    BY <2>3 DEF TypeOK
  <2>7. TypeOK'
    BY <1>4, <2>1, <2>2, <2>3, <2>4, <2>5, <2>6
       DEF FinishAssign, TypeOK, Requests, data
  <2>8. QED
    BY <1>4, <2>7 DEF FinishAssign, ClockRoom, Idle
<1>5. CASE Return
  <2>1. TypeOK'
    BY <1>5 DEF Return, TypeOK, Requests, flags, data, code, ghosts
  <2>2. QED
    BY <1>5, <2>1 DEF Return, ClockRoom, Idle
<1>6. QED
  BY <1>2, <1>3, <1>4, <1>5

\* A public method that only puts calls on the stack keeps the types.
LEMMA CallTypes ==
    ASSUME TypeInvariant, NEW op \in Methods, NEW t \in Tensors,
           NEW rhs \in Assignments, NEW calls \in Seq(Frames),
           Call(op, t, rhs, calls),
           op \in {"insert", "assign"} => clock < Clock
    PROVE  TypeInvariant'
<1> DEFINE request == [op |-> op, t |-> t, rhs |-> rhs]
<1>1. request \in Requests
  BY DEF Requests
<1>2. request # Idle
  BY DEF Methods, Idle
<1>3. TypeOK'
  BY <1>1, <1>2 DEF TypeInvariant, Call, TypeOK, flags, data, code, ghosts
<1>4. QED
  BY <1>3 DEF TypeInvariant, ClockRoom, Call, ghosts

\* Every public method keeps the types.
LEMMA ClientTypes ==
    ASSUME TypeInvariant, NEW t \in Tensors, Client(t)
    PROVE  TypeInvariant'
<1>1. Undefined \in Assignments /\ Expressions \subseteq Assignments
  BY DEF Assignments
<1>2. SyncDependents(t) \in Seq(Frames)
  BY SyncDependentsType DEF TypeInvariant
<1>3. \A c \in Calls : Do(c, t) \in Frames
  BY DoType
<1>4. CASE Insert(t)
  BY <1>1, <1>2, <1>4, CallTypes DEF Insert, Methods
<1>5. CASE \E rhs \in Expressions : Assign(t, rhs)
  BY <1>1, <1>2, <1>5, CallTypes DEF Assign, Methods
<1>6. CASE At(t)
  <2>1. <<Do("syncValues", t), Do("syncValues", t)>> \in Seq(Frames)
    BY <1>3 DEF Calls
  <2>2. QED
    BY <1>1, <1>6, <2>1, CallTypes DEF At, Methods
<1>7. CASE Iterate(t)
  <2>1. <<Do("syncValues", t)>> \in Seq(Frames)
    BY <1>3 DEF Calls
  <2>2. QED
    BY <1>1, <1>7, <2>1, CallTypes DEF Iterate, Methods
<1>8. CASE Evaluate(t)
  <2>1. /\ <<Do("compile", t), Do("compute", t)>> \in Seq(Frames)
        /\ <<Do("compile", t), Do("assemble", t), Do("compute", t)>>
              \in Seq(Frames)
    BY <1>3 DEF Calls
  <2>2. QED
    BY <1>1, <1>8, <2>1, CallTypes DEF Evaluate, Methods
<1>9. CASE CompileTensor(t)
  <2>1. <<Do("compile", t)>> \in Seq(Frames)
    BY <1>3 DEF Calls
  <2>2. QED
    BY <1>1, <1>9, <2>1, CallTypes DEF CompileTensor, Methods
<1>10. CASE AssembleTensor(t)
  <2>1. <<Do("assemble", t)>> \in Seq(Frames)
    BY <1>3 DEF Calls
  <2>2. QED
    BY <1>1, <1>10, <2>1, CallTypes DEF AssembleTensor, Methods
<1>11. CASE ComputeTensor(t)
  <2>1. <<Do("compute", t)>> \in Seq(Frames)
    BY <1>3 DEF Calls
  <2>2. QED
    BY <1>1, <1>11, <2>1, CallTypes DEF ComputeTensor, Methods
<1>12. CASE PackTensor(t)
  <2>1. buffer[t] \cup (IF neverPacked[t] THEN {} ELSE storage[t]) \in Values
        /\ {} \in Values
    BY DEF TypeInvariant, TypeOK, Values
  <2>2. TypeOK'
    BY <1>12, <2>1 DEF PackTensor, Pack, TypeInvariant, TypeOK, code, ghosts
  <2>3. QED
    BY <1>12, <2>2 DEF PackTensor, TypeInvariant, ClockRoom, ghosts
<1>13. CASE SetAssembleWhileCompute(t)
  <2>1. (~fused[t]) \in BOOLEAN
    OBVIOUS
  <2>2. TypeOK'
    BY <1>13, <2>1 DEF SetAssembleWhileCompute, TypeInvariant, TypeOK, data,
       code, ghosts
  <2>3. QED
    BY <1>13, <2>2 DEF SetAssembleWhileCompute, TypeInvariant, ClockRoom,
       ghosts
<1>14. CASE SetStorage(t)
  <2>1. clock + 1 \in 0 .. Clock
    BY <1>14 DEF SetStorage, TypeInvariant, TypeOK
  <2>2. {clock + 1} \in Values
    BY <2>1 DEF Values
  <2>3. TypeOK'
    BY <1>14, <2>1, <2>2 DEF SetStorage, TypeInvariant, TypeOK, code
  <2>4. QED
    BY <1>14, <2>3 DEF SetStorage, TypeInvariant, ClockRoom, Idle
<1>15. QED
  BY <1>4, <1>5, <1>6, <1>7, <1>8, <1>9, <1>10, <1>11, <1>12, <1>13, <1>14
     DEF Client

\* The types and the bound on the clock are inductive.
LEMMA NextTypeInvariant == TypeInvariant /\ [Next]_vars => TypeInvariant'
<1> SUFFICES ASSUME TypeInvariant, [Next]_vars PROVE TypeInvariant'
  OBVIOUS
<1>1. CASE Internal
  BY <1>1, InternalTypes, ReturnTypes
<1>2. CASE \E t \in Tensors : Client(t)
  BY <1>2, ClientTypes
<1>3. CASE UNCHANGED vars
  BY <1>3 DEF TypeInvariant, TypeOK, ClockRoom, vars, flags, data, code,
     ghosts
<1>4. QED
  BY <1>1, <1>2, <1>3 DEF Next

\* The engine keeps its types for any number of tensors and any client: the
\* call stack only ever holds calls, every call on it is made for a client,
\* and no mutation draws a token past the bound.
THEOREM TypeOKHolds == Spec => []TypeOK
<1>1. Init => TypeInvariant
  BY InitTypeInvariant
<1>2. TypeInvariant /\ [Next]_vars => TypeInvariant'
  BY NextTypeInvariant
<1>3. TypeInvariant => TypeOK
  BY DEF TypeInvariant
<1>4. QED
  BY <1>1, <1>2, <1>3, PTL DEF Spec

(***************************************************************************)
(* The compiled module.  compile() lowers the flag before it compiles, so  *)
(* the flag tells the truth only of the assignments that can be compiled.  *)
(***************************************************************************)
CompilableIsCurrent ==
    \A t \in Tensors :
        /\ assignment[t].defined /\ ~needsCompile[t]
        /\ assignment[t].operands \notin Failing
        => kernel[t].of = assignment[t]

\* compile() and the assignments keep flag and module in step.
LEMMA NextCompilableIsCurrent ==
    TypeInvariant /\ CompilableIsCurrent /\ [Next]_vars => CompilableIsCurrent'
<1> SUFFICES ASSUME TypeInvariant, CompilableIsCurrent, [Next]_vars
             PROVE  CompilableIsCurrent'
  OBVIOUS
<1>1. CASE UNCHANGED <<assignment, needsCompile, kernel>>
  BY <1>1 DEF CompilableIsCurrent
<1>2. CASE CompileKernel
  <2>1. self \in Tensors
    BY <1>2, StackType DEF TypeInvariant, CompileKernel, Executing
  <2>2. /\ assignment' = assignment
        /\ \A t \in Tensors \ {self} : needsCompile'[t] = needsCompile[t]
                                       /\ kernel'[t] = kernel[t]
        /\ kernel'[self].of = assignment[self]
    BY <1>2, <2>1 DEF CompileKernel, CompileFlag, TypeInvariant, TypeOK
  <2>3. QED
    BY <2>1, <2>2 DEF CompilableIsCurrent
<1>3. CASE CompileThrows
  <2>1. self \in Tensors
    BY <1>3, StackType DEF TypeInvariant, CompileThrows, Executing
  <2>2. /\ assignment' = assignment
        /\ \A t \in Tensors \ {self} : needsCompile'[t] = needsCompile[t]
                                       /\ kernel'[t] = kernel[t]
        /\ assignment[self].operands \in Failing
    BY <1>3, <2>1
       DEF CompileThrows, CompileFlag, TypeInvariant, TypeOK, Failing
  <2>3. QED
    BY <2>1, <2>2 DEF CompilableIsCurrent
<1>4. CASE FinishAssign
  <2>1. client.t \in Tensors
    BY <1>4, RequestType DEF TypeInvariant, FinishAssign, Returning, Methods
  <2>2. /\ kernel' = kernel
        /\ \A t \in Tensors \ {client.t} : needsCompile'[t] = needsCompile[t]
                                           /\ assignment'[t] = assignment[t]
        /\ assignment'[client.t] = client.rhs
        /\ ~needsCompile'[client.t]
              => ~needsCompile[client.t] /\ assignment[client.t] = client.rhs
    BY <1>4, <2>1 DEF FinishAssign, NeedsNewKernel, TypeInvariant, TypeOK
  <2>3. QED
    BY <2>1, <2>2 DEF CompilableIsCurrent
<1>5. CASE Internal /\ ~CompileKernel /\ ~CompileThrows /\ ~FinishAssign
  BY <1>1, <1>5 DEF Internal, SyncPack, SyncCompute, SyncNothing, Pack,
     CompileUndefined, CompileRejects, CompileAlready, RunUncompiled,
     AssembleAlready,
     AssembleOperands, CallAssemble, ComputeAlready, ComputeOperands,
     CallCompute, CallMissing, RemoveDependent, ClearDependents, FinishInsert,
     Return, flags, code
<1>6. CASE \E t \in Tensors : Client(t)
  BY <1>1, <1>6 DEF Client, Insert, Assign, At, Iterate, Evaluate,
     CompileTensor, AssembleTensor, ComputeTensor, PackTensor, Pack,
     SetAssembleWhileCompute, SetStorage, Call, flags, code
<1>7. CASE UNCHANGED vars
  BY <1>1, <1>7 DEF vars, flags, code
<1>8. QED
  BY <1>2, <1>3, <1>4, <1>5, <1>6, <1>7 DEF Next

\* A tensor whose assignment can be compiled and that says it needs no
\* compilation holds the kernels of that assignment, even after other
\* compilations threw (tensor.cpp:588-661).
THEOREM CompilableIsCurrentHolds == Spec => []CompilableIsCurrent
<1>1. Init => CompilableIsCurrent
  BY DEF Init, CompilableIsCurrent, Undefined
<1>2. QED
  BY <1>1, InitTypeInvariant, NextTypeInvariant, NextCompilableIsCurrent, PTL
     DEF Spec

\* When no compilation throws, every tensor that says it needs no
\* compilation holds the kernels of its own assignment (tensor.h:431).
THEOREM KernelIsCurrentHolds ==
    ASSUME Failing = {} PROVE Spec => []KernelIsCurrent
<1>1. CompilableIsCurrent => KernelIsCurrent
  BY DEF CompilableIsCurrent, KernelIsCurrent
<1>2. QED
  BY <1>1, CompilableIsCurrentHolds, PTL

(***************************************************************************)
(* The delayed assignments: the inductive invariant.                       *)
(***************************************************************************)
Mutating == client.op \in {"insert", "assign"}
Waits(t, u) == needsCompute[t] /\ u \in assignment[t].operands

\* A pending tensor is among the dependents of each of its operands.
Registered ==
    \A t, u \in Tensors : Waits(t, u) =>
        \E k \in 1 .. Len(dependents[u]) : dependents[u][k] = t

\* The components of a pending tensor are packed: syncValues computes it.
PackedOrPending ==
    /\ \A t \in Tensors : ~(needsPack[t] /\ needsCompute[t])
    /\ client.op = "insert" => ~needsCompute[client.t]

\* Only a tensor that is no longer pending leaves the dependents of its
\* operands.
OnlyComputedLeave ==
    \A i \in 1 .. Len(agenda) :
        agenda[i].call = "removeDependent" => ~needsCompute[agenda[i].by]

\* The dependents are cleared by a mutation, after all its other calls.
ClearedLast ==
    \A i \in 1 .. Len(agenda) : agenda[i].call = "clearDependents" =>
        i = Len(agenda) /\ agenda[i].t = client.t /\ Mutating

\* While a tensor is being mutated, the stack holds a call that will compute
\* each pending tensor that reads it.
Will(t, call) == call.t = t /\ call.call \in {"syncValues", "compute"}
Covered ==
    Mutating => \A w \in Tensors : Waits(w, client.t) =>
        \E i \in 1 .. Len(agenda) : Will(w, agenda[i])

\* No tensor is assigned an expression that reads it.
NotItself == client.op = "assign" => client.t \notin client.rhs.operands

TokensDrawn == \A t \in Tensors : token[t] <= clock

Bookkeeping ==
    /\ TypeInvariant
    /\ Registered
    /\ PackedOrPending
    /\ OnlyComputedLeave
    /\ ClearedLast
    /\ Covered
    /\ NotItself
    /\ TokensDrawn

\* What a pending assignment named is what its operands still are.
NamedIsCurrent ==
    \A t, u \in Tensors : Waits(t, u) => want[t][u] = eager[u]

(***************************************************************************)
(* What happens to the members of a list of dependents.                    *)
(***************************************************************************)
Member(w, s) == \E k \in 1 .. Len(s) : s[k] = w

\* A set of positions has a first one.
LEMMA Smallest ==
    ASSUME NEW S, S \subseteq Nat, S # {}
    PROVE  \E i \in S : \A j \in S : i <= j
<1>1. IsWellFoundedOn(OpToRel(<, Nat), Nat)
  BY NatLessThanWellFounded
<1>2. PICK i \in S : \A j \in S : ~(<<j, i>> \in OpToRel(<, Nat))
  BY <1>1, WFMin
<1>3. \A j \in S : ~(j < i)
  BY <1>2 DEF OpToRel
<1>4. QED
  BY <1>3

\* Removing t, the last element taking its place, loses nobody else
\* (tensor.cpp:681-702).
LEMMA WithoutKeeps ==
    ASSUME NEW s \in Seq(Tensors), NEW t \in Tensors, NEW w \in Tensors,
           w # t, Member(w, s)
    PROVE  Member(w, Without(s, t))
<1> DEFINE n == Len(s)
           at == {i \in 1 .. n : s[i] = t}
           first == CHOOSE i \in at : \A j \in at : i <= j
           swapped == [s EXCEPT ![first] = s[n]]
<1>1. n \in Nat /\ s \in [1 .. n -> Tensors] /\ DOMAIN s = 1 .. n
  BY LenProperties
<1>2. PICK k \in 1 .. n : s[k] = w
  BY DEF Member
<1>3. CASE at = {}
  BY <1>3 DEF Without
<1>4. CASE n \in at
  <2>1. k \in 1 .. n - 1
    BY <1>1, <1>2, <1>4
  <2>2. /\ Len(SubSeq(s, 1, n - 1)) = n - 1
        /\ \A i \in 1 .. n - 1 : SubSeq(s, 1, n - 1)[i] = s[i]
    <3>1. \A i \in 1 .. n - 1 : s[i] \in Tensors
      BY <1>1
    <3>2. 1 \in Int /\ n - 1 \in Int /\ 1 <= n - 1
      BY <1>1, <2>1
    <3>3. QED
      BY <3>1, <3>2, SubSeqProperties
  <2>3. Without(s, t) = SubSeq(s, 1, n - 1)
    BY <1>4 DEF Without
  <2>4. QED
    BY <1>2, <2>1, <2>2, <2>3 DEF Member
<1>5. CASE at # {} /\ n \notin at
  <2>1. k = n \/ k \in 1 .. n - 1
    <3>1. \A x \in Nat : \A y \in 1 .. x : y = x \/ y \in 1 .. x - 1
      OBVIOUS
    <3>2. n \in Nat
      BY <1>1
    <3>3. QED
      BY <3>1, <3>2
  <2>2. first \in at
    <3>1. at \subseteq Nat
      BY <1>1
    <3>2. \E i \in at : \A j \in at : i <= j
      BY <1>5, <3>1, Smallest
    <3>3. QED
      BY <3>2
  <2> HIDE DEF first
  <2>3. first \in 1 .. n - 1 /\ n - 1 \in Nat
    BY <1>1, <1>5, <2>2
  <2>4. /\ \A i \in 1 .. n - 1 : swapped[i] = IF i = first THEN s[n] ELSE s[i]
        /\ \A i \in 1 .. n - 1 : swapped[i] \in Tensors
    BY <1>1, <2>3
  <2>5. s[first] = t
    BY <2>2
  <2>6. \E i \in 1 .. n - 1 : swapped[i] = w
    <3>1. CASE k = n
      BY <1>2, <2>3, <2>4, <3>1
    <3>2. CASE k # n
      <4>1. k \in 1 .. n - 1
        BY <2>1, <3>2
      <4>2. k # first
        BY <1>2, <2>5
      <4>3. QED
        BY <1>2, <2>4, <4>1, <4>2
    <3>3. QED
      BY <3>1, <3>2
  <2>7. /\ Len(SubSeq(swapped, 1, n - 1)) = n - 1
        /\ \A i \in 1 .. n - 1 : SubSeq(swapped, 1, n - 1)[i] = swapped[i]
    <3> HIDE DEF swapped
    <3>1. 1 \in Int /\ n - 1 \in Int /\ 1 <= n - 1
      BY <2>3
    <3>2. QED
      BY <2>4, <3>1, SubSeqProperties
  <2>8. Without(s, t) = SubSeq(swapped, 1, n - 1)
    BY <1>5 DEF Without, first
  <2>9. QED
    BY <2>6, <2>7, <2>8 DEF Member
<1>6. QED
  BY <1>3, <1>4, <1>5

\* An assignment of t keeps every other member of every list and adds t to
\* the dependents of its operands (tensor.cpp:500-530).
LEMMA RewiredKeeps ==
    ASSUME TypeOK, NEW t \in Tensors, NEW rhs, NEW u \in Tensors
    PROVE  /\ u \in rhs.operands => Member(t, Rewired(t, rhs)[u])
           /\ \A w \in Tensors \ {t} :
                 Member(w, dependents[u]) => Member(w, Rewired(t, rhs)[u])
<1> DEFINE leaves == /\ assignment[t] # rhs
                     /\ needsCompute[t]
                     /\ u \in assignment[t].operands
           left == IF leaves THEN Without(dependents[u], t)
                   ELSE dependents[u]
<1>1. Rewired(t, rhs)[u] = IF u \in rhs.operands THEN Append(left, t) ELSE left
  BY DEF Rewired
<1>2. dependents[u] \in Seq(Tensors)
  BY DEF TypeOK
<1>3. left \in Seq(Tensors)
  BY <1>2, WithoutType
<1>4. \A w \in Tensors \ {t} : Member(w, dependents[u]) => Member(w, left)
  BY <1>2, WithoutKeeps
<1> HIDE DEF left
<1>5. Len(left) \in Nat
  BY <1>3, LenProperties
<1>6. /\ Len(Append(left, t)) = Len(left) + 1
      /\ Append(left, t)[Len(left) + 1] = t
      /\ \A k \in 1 .. Len(left) : Append(left, t)[k] = left[k]
  BY <1>3, <1>5, AppendProperties
<1>7. Member(t, Append(left, t))
  BY <1>5, <1>6 DEF Member
<1>8. \A w : Member(w, left) => Member(w, Append(left, t))
  BY <1>5, <1>6 DEF Member
<1>9. QED
  BY <1>1, <1>4, <1>7, <1>8

\* The same of an assignment to a scalar, which leaves no list
\* (tensor.cpp:842-863).
LEMMA JoinedKeeps ==
    ASSUME TypeOK, NEW t \in Tensors, NEW rhs, NEW u \in Tensors
    PROVE  /\ u \in rhs.operands => Member(t, Joined(t, rhs)[u])
           /\ \A w \in Tensors \ {t} :
                 Member(w, dependents[u]) => Member(w, Joined(t, rhs)[u])
<1> DEFINE list == dependents[u]
<1>1. Joined(t, rhs)[u] = IF u \in rhs.operands THEN Append(list, t) ELSE list
  BY DEF Joined
<1>2. list \in Seq(Tensors)
  BY DEF TypeOK
<1> HIDE DEF list
<1>3. Len(list) \in Nat
  BY <1>2, LenProperties
<1>4. /\ Len(Append(list, t)) = Len(list) + 1
      /\ Append(list, t)[Len(list) + 1] = t
      /\ \A k \in 1 .. Len(list) : Append(list, t)[k] = list[k]
  BY <1>2, <1>3, AppendProperties
<1>5. Member(t, Append(list, t))
  BY <1>3, <1>4 DEF Member
<1>6. \A w : Member(w, list) => Member(w, Append(list, t))
  BY <1>3, <1>4 DEF Member
<1>7. QED
  BY <1>1, <1>5, <1>6 DEF list

(***************************************************************************)
(* The stack.                                                              *)
(***************************************************************************)
\* Replacing the call being executed by the calls it makes.
LEMMA Push ==
    ASSUME TypeOK, agenda # <<>>, NEW front \in Seq(Frames),
           agenda' = front \o rest
    PROVE  /\ Len(front) \in Nat /\ Len(agenda) \in Nat \ {0}
           /\ Len(agenda') = Len(front) + Len(agenda) - 1
           /\ \A i \in 1 .. Len(front) : agenda'[i] = front[i]
           /\ \A i \in 2 .. Len(agenda) : agenda'[Len(front) + i - 1] = agenda[i]
           /\ Head(agenda) = agenda[1]
<1>1. agenda \in Seq(Frames)
  BY DEF TypeOK
<1>2. /\ Tail(agenda) \in Seq(Frames)
      /\ Len(Tail(agenda)) = Len(agenda) - 1
      /\ \A i \in 1 .. Len(Tail(agenda)) : Tail(agenda)[i] = agenda[i + 1]
  BY <1>1, HeadTailProperties
<1>3. Len(front) \in Nat /\ Len(agenda) \in Nat \ {0}
  BY <1>1, LenProperties, EmptySeq
<1>4. /\ Len(agenda') = Len(front) + Len(Tail(agenda))
      /\ \A i \in 1 .. Len(front) + Len(Tail(agenda)) : agenda'[i] =
            IF i <= Len(front) THEN front[i] ELSE Tail(agenda)[i - Len(front)]
  BY <1>2, ConcatProperties DEF rest
<1>5. Head(agenda) = agenda[1]
  BY <1>1
<1>6. \A i \in 1 .. Len(front) : agenda'[i] = front[i]
  BY <1>2, <1>3, <1>4
<1>7. ASSUME NEW i \in 2 .. Len(agenda)
      PROVE  agenda'[Len(front) + i - 1] = agenda[i]
  <2>1. /\ Len(front) + i - 1 \in 1 .. Len(front) + Len(Tail(agenda))
        /\ ~(Len(front) + i - 1 <= Len(front))
        /\ (Len(front) + i - 1) - Len(front) = i - 1
        /\ i - 1 \in 1 .. Len(Tail(agenda)) /\ (i - 1) + 1 = i
    BY <1>2, <1>3
  <2>2. agenda'[Len(front) + i - 1] = Tail(agenda)[i - 1]
    BY <1>4, <2>1
  <2>3. QED
    BY <1>2, <2>1, <2>2
<1>8. QED
  BY <1>2, <1>3, <1>4, <1>5, <1>6, <1>7

\* Executing a call keeps the stack in order, if the calls it makes clear no
\* list, take away only tensors that are not pending, and still compute the
\* tensor the call was to compute.
StackInvariant == OnlyComputedLeave /\ ClearedLast /\ Covered

LEMMA PushKeeps ==
    ASSUME TypeOK, StackInvariant, agenda # <<>>, NEW front \in Seq(Frames),
           agenda' = front \o rest,
           client' = client, assignment' = assignment,
           \A t \in Tensors : needsCompute'[t] => needsCompute[t],
           \A i \in 1 .. Len(front) :
              /\ front[i].call # "clearDependents"
              /\ front[i].call = "removeDependent"
                    => ~needsCompute'[front[i].by],
           Will(self, Head(agenda)) /\ needsCompute'[self]
              => \E i \in 1 .. Len(front) : Will(self, front[i])
    PROVE  StackInvariant'
<1> DEFINE m == Len(front)
           n == Len(agenda)
<1>1. /\ m \in Nat /\ n \in Nat \ {0}
      /\ Len(agenda') = m + n - 1
      /\ \A i \in 1 .. m : agenda'[i] = front[i]
      /\ \A i \in 2 .. n : agenda'[m + i - 1] = agenda[i]
      /\ Head(agenda) = agenda[1]
  BY Push
<1>2. \A i \in 1 .. n : agenda[i] \in Frames
  BY ElementOfSeq DEF TypeOK
<1> HIDE DEF m, n
<1>3. ASSUME NEW i \in 1 .. Len(agenda'), i \notin 1 .. m
      PROVE  \E j \in 2 .. n : i = m + j - 1 /\ agenda'[i] = agenda[j]
  <2>1. i - m + 1 \in 2 .. n /\ i = m + (i - m + 1) - 1
    BY <1>1, <1>3
  <2>2. QED
    BY <1>1, <2>1
<1>4. OnlyComputedLeave'
  <2> SUFFICES ASSUME NEW i \in 1 .. Len(agenda'),
                      agenda'[i].call = "removeDependent"
               PROVE  ~needsCompute'[agenda'[i].by]
    BY DEF OnlyComputedLeave
  <2>1. CASE i \in 1 .. m
    BY <1>1, <2>1 DEF m
  <2>2. CASE i \notin 1 .. m
    <3>1. PICK j \in 2 .. n : agenda'[i] = agenda[j]
      BY <1>3, <2>2
    <3>2. j \in 1 .. n /\ agenda[j].by \in Tensors
      BY <1>1, <1>2, <3>1 DEF Frames
    <3>3. ~needsCompute[agenda[j].by]
      BY <3>1, <3>2 DEF StackInvariant, OnlyComputedLeave, n
    <3>4. QED
      BY <3>1, <3>2, <3>3
  <2>3. QED
    BY <2>1, <2>2
<1>5. ClearedLast'
  <2> SUFFICES ASSUME NEW i \in 1 .. Len(agenda'),
                      agenda'[i].call = "clearDependents"
               PROVE  /\ i = Len(agenda') /\ agenda'[i].t = client'.t
                      /\ Mutating'
    BY DEF ClearedLast
  <2>1. i \notin 1 .. m
    BY <1>1 DEF m
  <2>2. PICK j \in 2 .. n : i = m + j - 1 /\ agenda'[i] = agenda[j]
    BY <1>3, <2>1
  <2>3. j \in 1 .. n
    BY <1>1, <2>2
  <2>4. j = n /\ agenda[j].t = client.t /\ Mutating
    BY <2>2, <2>3 DEF StackInvariant, ClearedLast, n
  <2>5. i = Len(agenda')
    BY <1>1, <2>2, <2>4
  <2>6. QED
    BY <2>2, <2>4, <2>5 DEF Mutating
<1>6. Covered'
  <2> SUFFICES ASSUME Mutating', NEW w \in Tensors, Waits(w, client.t)'
               PROVE  \E i \in 1 .. Len(agenda') : Will(w, agenda'[i])
    BY DEF Covered
  <2>1. Mutating /\ Waits(w, client.t)
    BY DEF Mutating, Waits
  <2>2. PICK i \in 1 .. n : Will(w, agenda[i])
    BY <2>1 DEF StackInvariant, Covered, n
  <2>3. CASE i = 1
    <3>1. w = self /\ Will(self, Head(agenda))
      BY <1>1, <2>2, <2>3 DEF Will, self
    <3>2. PICK j \in 1 .. m : Will(w, front[j])
      BY <3>1 DEF Waits, m
    <3>3. j \in 1 .. Len(agenda') /\ agenda'[j] = front[j]
      BY <1>1, <3>2
    <3>4. QED
      BY <3>2, <3>3
  <2>4. CASE i # 1
    <3>1. i \in 2 .. n /\ m + i - 1 \in 1 .. Len(agenda')
      BY <1>1, <2>2, <2>4
    <3>2. agenda'[m + i - 1] = agenda[i]
      BY <1>1, <3>1
    <3>3. QED
      BY <2>2, <3>1, <3>2
  <2>5. QED
    BY <2>3, <2>4
<1>7. QED
  BY <1>4, <1>5, <1>6 DEF StackInvariant

\* Returning from a call that computed its tensor, or had not to.
LEMMA PopKeeps ==
    ASSUME TypeOK, StackInvariant, agenda # <<>>, agenda' = rest,
           client' = client, assignment' = assignment,
           \A t \in Tensors : needsCompute'[t] => needsCompute[t],
           Will(self, Head(agenda)) => ~needsCompute'[self]
    PROVE  StackInvariant'
<1>1. rest \in Seq(Frames)
  BY StackType
<1>2. <<>> \in Seq(Frames) /\ Len(<<>>) = 0
  BY EmptySeq
<1>3. agenda' = <<>> \o rest
  BY <1>1, ConcatEmptySeq
<1>4. \A i \in 1 .. Len(<<>>) : FALSE
  BY <1>2
<1>5. QED
  BY <1>2, <1>3, <1>4, PushKeeps

\* What executing the calls on the stack leaves alone: nothing is assigned,
\* inserted or delayed, and the request is served or abandoned.
LEMMA StackFrame ==
    ASSUME TypeInvariant, Internal, agenda # <<>>
    PROVE  /\ UNCHANGED <<assignment, clock, token, want, eager, spoiled>>
           /\ \A t \in Tensors : needsCompute'[t] => needsCompute[t]
           /\ \A t \in Tensors : needsPack'[t] => needsPack[t]
           /\ client' = client \/ (client' = Idle /\ agenda' = <<>>)
<1>1. self \in Tensors
  BY StackType DEF TypeInvariant
<1>2. \A op : ~Returning(op)
  BY DEF Returning
<1>3. UNCHANGED <<assignment, clock, token, want, eager, spoiled>>
  BY <1>2 DEF Internal, SyncPack, SyncCompute, SyncNothing, CompileUndefined,
     CompileRejects,
     CompileAlready, CompileKernel, CompileThrows, RunUncompiled,
     AssembleAlready, AssembleOperands, CallAssemble, ComputeAlready,
     ComputeOperands, CallCompute, CallMissing, RemoveDependent,
     ClearDependents, FinishInsert, FinishAssign, Return, code, ghosts
<1>4. client' = client \/ (client' = Idle /\ agenda' = <<>>)
  BY <1>2 DEF Internal, SyncPack, SyncCompute, SyncNothing, CompileUndefined,
     CompileRejects,
     CompileAlready, CompileKernel, CompileThrows, RunUncompiled,
     AssembleAlready, AssembleOperands, CallAssemble, ComputeAlready,
     ComputeOperands, CallCompute, CallMissing, RemoveDependent,
     ClearDependents, FinishInsert, FinishAssign, Return, Throw
<1>5. \/ needsCompute' = needsCompute
      \/ needsCompute' = [needsCompute EXCEPT ![self] = FALSE]
  BY <1>2 DEF Internal, SyncPack, SyncCompute, SyncNothing, Pack,
     CompileUndefined, CompileRejects, CompileAlready, CompileKernel,
     CompileThrows,
     RunUncompiled, AssembleAlready, AssembleOperands, CallAssemble,
     ComputeAlready, ComputeOperands, CallCompute, CallMissing,
     RemoveDependent, ClearDependents, FinishInsert, FinishAssign, Return,
     flags
<1>6. \/ needsPack' = needsPack
      \/ needsPack' = [needsPack EXCEPT ![self] = FALSE]
  BY <1>2 DEF Internal, SyncPack, SyncCompute, SyncNothing, Pack,
     CompileUndefined, CompileRejects, CompileAlready, CompileKernel,
     CompileThrows,
     RunUncompiled, AssembleAlready, AssembleOperands, CallAssemble,
     ComputeAlready, ComputeOperands, CallCompute, CallMissing,
     RemoveDependent, ClearDependents, FinishInsert, FinishAssign, Return,
     flags
<1>7. QED
  BY <1>1, <1>3, <1>4, <1>5, <1>6 DEF TypeInvariant, TypeOK

\* The calls assemble() and insert or assign make: a syncValues for every
\* operand or dependent, then one of the tensor itself.
LEMMA SyncAllThen ==
    ASSUME NEW ops \in Seq(Tensors), NEW c \in Calls, NEW t \in Tensors,
           NEW front, front = SyncAll(ops) \o <<Do(c, t)>>
    PROVE  /\ Len(front) = Len(ops) + 1
           /\ \A i \in 1 .. Len(ops) : front[i] = Do("syncValues", ops[i])
           /\ front[Len(ops) + 1] = Do(c, t)
<1> DEFINE last == <<Do(c, t)>>
<1>1. Len(ops) \in Nat
  BY LenProperties
<1>2. SyncAll(ops) \in Seq(Frames)
  BY SyncAllType
<1>3. /\ Len(SyncAll(ops)) = Len(ops)
      /\ \A i \in 1 .. Len(ops) : SyncAll(ops)[i] = Do("syncValues", ops[i])
  BY <1>1 DEF SyncAll
<1>4. last \in Seq(Frames) /\ Len(last) = 1 /\ last[1] = Do(c, t)
  BY DoType
<1> HIDE DEF last
<1>5. /\ front \in Seq(Frames)
      /\ Len(front) = Len(ops) + 1
      /\ \A i \in 1 .. Len(ops) + 1 : front[i] =
            IF i <= Len(ops) THEN SyncAll(ops)[i] ELSE last[i - Len(ops)]
  <2>1. /\ front \in Seq(Frames)
        /\ Len(front) = Len(SyncAll(ops)) + Len(last)
        /\ \A i \in 1 .. Len(SyncAll(ops)) + Len(last) : front[i] =
              IF i <= Len(SyncAll(ops)) THEN SyncAll(ops)[i]
              ELSE last[i - Len(SyncAll(ops))]
    BY <1>2, <1>4, ConcatProperties DEF last
  <2>2. QED
    BY <1>3, <1>4, <2>1
<1>6. \A i \in 1 .. Len(ops) : front[i] = Do("syncValues", ops[i])
  BY <1>1, <1>3, <1>5
<1>7. front[Len(ops) + 1] = Do(c, t)
  BY <1>1, <1>4, <1>5
<1>8. QED
  BY <1>5, <1>6, <1>7

\* The calls assemble() makes take no tensor off any list.
LEMMA AssembleCalls ==
    ASSUME NEW t \in Tensors, NEW ops \in Seq(Tensors)
    PROVE  LET front == SyncAll(ops) \o <<Do("callAssemble", t)>> IN
           /\ front \in Seq(Frames)
           /\ \A i \in 1 .. Len(front) :
                 front[i].call = "syncValues" \/ front[i].call = "callAssemble"
<1> DEFINE front == SyncAll(ops) \o <<Do("callAssemble", t)>>
<1>1. front = SyncAll(ops) \o <<Do("callAssemble", t)>>
  OBVIOUS
<1>2. "callAssemble" \in Calls
  BY DEF Calls
<1> HIDE DEF front
<1>3. /\ Len(front) = Len(ops) + 1
      /\ \A i \in 1 .. Len(ops) : front[i] = Do("syncValues", ops[i])
      /\ front[Len(ops) + 1] = Do("callAssemble", t)
  BY <1>1, <1>2, SyncAllThen
<1>4. Len(ops) \in Nat
  BY LenProperties
<1>5. ASSUME NEW i \in 1 .. Len(front)
      PROVE  front[i].call = "syncValues" \/ front[i].call = "callAssemble"
  <2>1. i \in 1 .. Len(ops) \/ i = Len(ops) + 1
    BY <1>3, <1>4
  <2>2. i \in 1 .. Len(ops) => front[i] = Do("syncValues", ops[i])
    BY <1>3
  <2>3. \A c, u : Do(c, u).call = c
    BY DEF Do
  <2>4. QED
    BY <1>3, <2>1, <2>2, <2>3
<1>6. front \in Seq(Frames)
  <2>1. SyncAll(ops) \in Seq(Frames)
    BY SyncAllType
  <2>2. <<Do("callAssemble", t)>> \in Seq(Frames)
    BY <1>2, DoType
  <2>3. QED
    BY <1>1, <2>1, <2>2, ConcatProperties
<1>7. QED
  BY <1>5, <1>6 DEF front

\* The calls compute() makes: only the tensor itself leaves the dependents
\* of its operands.
LEMMA SyncAndLeaveThen ==
    ASSUME NEW t \in Tensors, NEW ops \in Seq(Tensors)
    PROVE  LET front == SyncAndLeave(t, ops) \o <<Do("callCompute", t)>> IN
           /\ front \in Seq(Frames)
           /\ \A i \in 1 .. Len(front) :
                 /\ front[i].call # "clearDependents"
                 /\ front[i].by = t \/ front[i].call # "removeDependent"
<1> DEFINE last == <<Do("callCompute", t)>>
           first == SyncAndLeave(t, ops)
           front == first \o last
           n == 2 * Len(ops)
<1>1. n \in Nat
  BY LenProperties
<1>2. first \in Seq(Frames)
  BY SyncAndLeaveType
<1>3. /\ Len(first) = n
      /\ \A i \in 1 .. n : first[i].call # "clearDependents"
             /\ (first[i].by = t \/ first[i].call # "removeDependent")
  BY <1>1 DEF SyncAndLeave, Do
<1>4. last \in Seq(Frames) /\ Len(last) = 1 /\ last[1] = Do("callCompute", t)
  BY DoType DEF Calls
<1> HIDE DEF last, first, n
<1>5. /\ front \in Seq(Frames)
      /\ Len(front) = n + 1
      /\ \A i \in 1 .. n + 1 : front[i] =
            IF i <= n THEN first[i] ELSE last[i - n]
  <2>1. /\ front \in Seq(Frames)
        /\ Len(front) = Len(first) + Len(last)
        /\ \A i \in 1 .. Len(first) + Len(last) : front[i] =
              IF i <= Len(first) THEN first[i] ELSE last[i - Len(first)]
    BY <1>2, <1>4, ConcatProperties
  <2> HIDE DEF front
  <2>2. QED
    BY <1>3, <1>4, <2>1
<1> HIDE DEF front
<1>6. ASSUME NEW i \in 1 .. Len(front)
      PROVE  /\ front[i].call # "clearDependents"
             /\ front[i].by = t \/ front[i].call # "removeDependent"
  <2>1. CASE i \in 1 .. n
    BY <1>1, <1>3, <1>5, <2>1
  <2>2. CASE i = n + 1
    BY <1>1, <1>4, <1>5, <2>2 DEF Do
  <2>3. QED
    BY <1>1, <1>5, <2>1, <2>2
<1>7. QED
  BY <1>5, <1>6 DEF front, first, last

\* Executing a call keeps the stack in order.
LEMMA StackSteps ==
    ASSUME Bookkeeping, Internal, agenda # <<>>
    PROVE  StackInvariant'
<1> USE DEF TypeInvariant
<1>1. TypeOK /\ TypeInvariant /\ StackInvariant /\ PackedOrPending
  BY DEF Bookkeeping, StackInvariant
<1>2. /\ self \in Tensors /\ rest \in Seq(Frames)
      /\ Head(agenda).call \in Calls
  <2>1. Head(agenda) \in Frames
    BY <1>1, HeadTailProperties DEF TypeOK
  <2>2. QED
    BY <1>1, <2>1, StackType DEF Frames
<1>3. /\ assignment' = assignment
      /\ \A t \in Tensors : needsCompute'[t] => needsCompute[t]
      /\ client' = client \/ (client' = Idle /\ agenda' = <<>>)
  BY <1>1, StackFrame
<1>4. \A op : ~Returning(op)
  BY DEF Returning
<1>5. CASE client' = Idle /\ agenda' = <<>>
  <2>1. ~Mutating' /\ Len(agenda') = 0
    BY <1>5, EmptySeq DEF Mutating, Idle
  <2>2. \A i \in 1 .. Len(agenda') : FALSE
    BY <2>1
  <2>3. QED
    BY <2>1, <2>2
       DEF StackInvariant, OnlyComputedLeave, ClearedLast, Covered
<1>6. ASSUME agenda' = rest, client' = client,
             Will(self, Head(agenda)) => ~needsCompute'[self]
      PROVE  StackInvariant'
  BY <1>1, <1>3, <1>6, PopKeeps
<1>7. CASE SyncPack
  <2>1. ~needsCompute[self]
    BY <1>1, <1>2, <1>7 DEF PackedOrPending, SyncPack, Pack
  <2>2. QED
    BY <1>2, <1>3, <1>6, <1>7, <2>1 DEF SyncPack
<1>8. CASE SyncNothing \/ ComputeAlready
  BY <1>2, <1>3, <1>6, <1>8 DEF SyncNothing, ComputeAlready
<1>9. CASE \/ CompileAlready \/ CompileKernel \/ AssembleAlready
           \/ CallAssemble \/ CallCompute \/ RemoveDependent \/ ClearDependents
  <2>1. ~Will(self, Head(agenda))
    BY <1>9 DEF Will, Executing, CompileAlready, CompileKernel,
       AssembleAlready, CallAssemble, CallCompute, RemoveDependent,
       ClearDependents
  <2>2. agenda' = rest /\ client' = client
    BY <1>9 DEF CompileAlready, CompileKernel, AssembleAlready, CallAssemble,
       CallCompute, RemoveDependent, ClearDependents
  <2>3. QED
    BY <1>6, <2>1, <2>2
<1>10. CASE \/ CompileUndefined \/ CompileRejects \/ CompileThrows
            \/ RunUncompiled \/ CallMissing
  BY <1>5, <1>10 DEF CompileUndefined, CompileRejects, CompileThrows,
                    RunUncompiled,
     CallMissing, Throw
<1>11. CASE SyncCompute
  <2> DEFINE front == <<Do("compile", self), Do("assemble", self),
                        Do("compute", self)>>
  <2>1. front \in Seq(Frames)
    BY <1>2, DoType DEF Calls
  <2>2. agenda' = front \o rest /\ client' = client
    BY <1>11 DEF SyncCompute
  <2>3. Len(front) = 3 /\ Will(self, front[3])
    BY DEF Will, Do
  <2>4. \A i \in 1 .. Len(front) :
           front[i].call \notin {"clearDependents", "removeDependent"}
    <3>1. /\ front[1].call = "compile" /\ front[2].call = "assemble"
          /\ front[3].call = "compute"
      BY DEF Do
    <3>2. 1 .. 3 = {1, 2, 3}
      OBVIOUS
    <3> HIDE DEF front
    <3>3. QED
      BY <2>3, <3>1, <3>2
  <2> HIDE DEF front
  <2>5. \E i \in 1 .. Len(front) : Will(self, front[i])
    BY <2>3
  <2>6. QED
    BY <1>1, <1>3, <2>1, <2>2, <2>4, <2>5, PushKeeps
<1>12. CASE AssembleOperands
  <2>1. PICK ops \in Orders(assignment[self].operands) :
            agenda' = SyncAll(ops) \o <<Do("callAssemble", self)>> \o rest
    BY <1>12 DEF AssembleOperands
  <2> DEFINE front == SyncAll(ops) \o <<Do("callAssemble", self)>>
  <2>2. ops \in Seq(Tensors)
    BY <1>1, <1>2, <2>1, OperandsType, OrdersType
  <2>3. SyncAll(ops) \in Seq(Frames)
    BY <2>2, SyncAllType
  <2>4. /\ front \in Seq(Frames)
        /\ \A i \in 1 .. Len(front) :
              front[i].call = "syncValues" \/ front[i].call = "callAssemble"
    BY <1>2, <2>2, AssembleCalls
  <2>5. ~Will(self, Head(agenda)) /\ client' = client
    BY <1>12 DEF AssembleOperands, Will, Executing
  <2> HIDE DEF front
  <2>6. agenda' = front \o rest
    BY <2>1 DEF front
  <2>7. \A i \in 1 .. Len(front) :
           front[i].call \notin {"clearDependents", "removeDependent"}
    BY <2>4
  <2>8. QED
    BY <1>1, <1>3, <2>4, <2>5, <2>6, <2>7, PushKeeps
<1>13. CASE ComputeOperands
  <2>1. PICK ops \in Orders(assignment[self].operands) :
            agenda' = SyncAndLeave(self, ops)
                         \o <<Do("callCompute", self)>> \o rest
    BY <1>13 DEF ComputeOperands
  <2> DEFINE front == SyncAndLeave(self, ops) \o <<Do("callCompute", self)>>
  <2>2. ops \in Seq(Tensors)
    BY <1>1, <1>2, <2>1, OperandsType, OrdersType
  <2>3. /\ front \in Seq(Frames)
        /\ \A i \in 1 .. Len(front) :
              /\ front[i].call # "clearDependents"
              /\ front[i].by = self \/ front[i].call # "removeDependent"
    BY <1>2, <2>2, SyncAndLeaveThen
  <2>4. ~needsCompute'[self] /\ client' = client
    BY <1>1, <1>2, <1>13 DEF ComputeOperands, TypeOK
  <2> HIDE DEF front
  <2>5. agenda' = front \o rest
    BY <2>1 DEF front
  <2>6. QED
    BY <1>1, <1>3, <2>3, <2>4, <2>5, PushKeeps
<1>14. QED
  BY <1>4, <1>7, <1>8, <1>9, <1>10, <1>11, <1>12, <1>13
     DEF Internal, FinishInsert, FinishAssign, Return

\* Executing a call loses no registration of a pending tensor.
LEMMA StackRegistered ==
    ASSUME Bookkeeping, Internal, agenda # <<>>
    PROVE  Registered'
<1>1. TypeOK /\ TypeInvariant
  BY DEF Bookkeeping, TypeInvariant
<1>2. /\ self \in Tensors /\ Head(agenda).by \in Tensors
      /\ Head(agenda) = agenda[1] /\ Len(agenda) \in Nat \ {0}
  <2>1. agenda \in Seq(Frames)
    BY <1>1 DEF TypeOK
  <2>2. Head(agenda) = agenda[1] /\ Len(agenda) \in Nat \ {0}
    BY <2>1, EmptySeq
  <2>3. QED
    BY <1>1, <2>2, StackType
<1>3. /\ assignment' = assignment
      /\ \A t \in Tensors : needsCompute'[t] => needsCompute[t]
  BY <1>1, StackFrame
<1>4. ASSUME NEW t \in Tensors, NEW u \in Tensors, Waits(t, u)'
      PROVE  Waits(t, u) /\ Member(t, dependents[u])
  BY <1>3, <1>4 DEF Waits, Bookkeeping, Registered, Member
<1> SUFFICES ASSUME NEW t \in Tensors, NEW u \in Tensors, Waits(t, u)'
             PROVE  Member(t, dependents'[u])
  BY DEF Registered, Member
<1>5. \A op : ~Returning(op)
  BY DEF Returning
<1>6. CASE dependents' = dependents
  BY <1>4, <1>6
<1>7. CASE RemoveDependent
  <2>1. dependents' = [dependents EXCEPT ![self] =
                          Without(dependents[self], Head(agenda).by)]
    BY <1>7 DEF RemoveDependent
  <2>2. CASE u # self
    BY <1>1, <1>4, <2>1, <2>2 DEF TypeOK
  <2>3. CASE u = self
    <3>1. ~needsCompute[Head(agenda).by]
      <4>1. 1 \in 1 .. Len(agenda) /\ agenda[1].call = "removeDependent"
        BY <1>2, <1>7 DEF RemoveDependent, Executing
      <4>2. QED
        BY <1>2, <4>1 DEF Bookkeeping, OnlyComputedLeave
    <3>2. t # Head(agenda).by
      BY <1>4, <3>1 DEF Waits
    <3>3. dependents[u] \in Seq(Tensors) /\ Member(t, dependents[u])
      BY <1>1, <1>4 DEF TypeOK
    <3>4. Member(t, Without(dependents[u], Head(agenda).by))
      BY <1>2, <3>2, <3>3, WithoutKeeps
    <3>5. dependents'[u] = Without(dependents[u], Head(agenda).by)
      BY <1>1, <2>1, <2>3 DEF TypeOK
    <3>6. QED
      BY <3>4, <3>5
  <2>4. QED
    BY <2>2, <2>3
<1>8. CASE ClearDependents
  <2>1. dependents' = [dependents EXCEPT ![self] = <<>>]
    BY <1>8 DEF ClearDependents
  <2>2. u # self
    <3>1. 1 \in 1 .. Len(agenda) /\ agenda[1].call = "clearDependents"
      BY <1>2, <1>8 DEF ClearDependents, Executing
    <3>2. 1 = Len(agenda) /\ self = client.t /\ Mutating
      BY <1>2, <3>1 DEF Bookkeeping, ClearedLast, self
    <3>3. ASSUME u = self PROVE FALSE
      <4>1. PICK i \in 1 .. Len(agenda) : Will(t, agenda[i])
        BY <1>4, <3>2, <3>3 DEF Bookkeeping, Covered
      <4>2. i = 1
        <5>1. i \in 1 .. 1
          BY <3>2, <4>1
        <5>2. QED
          BY <5>1
      <4>3. QED
        BY <3>1, <4>1, <4>2 DEF Will
    <3>4. QED
      BY <3>3
  <2>3. QED
    BY <1>1, <1>4, <2>1, <2>2 DEF TypeOK
<1>9. QED
  BY <1>5, <1>6, <1>7, <1>8 DEF Internal, SyncPack, SyncCompute, SyncNothing,
     CompileUndefined, CompileRejects, CompileAlready, CompileKernel,
     CompileThrows,
     RunUncompiled, AssembleAlready, AssembleOperands, CallAssemble,
     ComputeAlready, ComputeOperands, CallCompute, CallMissing, FinishInsert,
     FinishAssign, Return, code

\* Executing a call on the stack keeps the whole invariant.
LEMMA StackBookkeeping ==
    ASSUME Bookkeeping, Internal, agenda # <<>>
    PROVE  Bookkeeping'
<1>1. TypeInvariant /\ TypeInvariant'
  BY InternalTypes DEF Bookkeeping
<1>2. StackInvariant' /\ Registered'
  BY StackSteps, StackRegistered
<1>3. /\ UNCHANGED <<assignment, clock, token>>
      /\ \A t \in Tensors : needsCompute'[t] => needsCompute[t]
      /\ \A t \in Tensors : needsPack'[t] => needsPack[t]
      /\ client' = client \/ client' = Idle
  BY <1>1, StackFrame
<1>4. client.op = "insert" => client.t \in Tensors
  BY <1>1, RequestType DEF TypeInvariant, Methods
<1>5. PackedOrPending'
  BY <1>3, <1>4 DEF Bookkeeping, PackedOrPending, Idle
<1>6. NotItself' /\ TokensDrawn'
  BY <1>3 DEF Bookkeeping, NotItself, TokensDrawn, Idle
<1>7. QED
  BY <1>1, <1>2, <1>5, <1>6 DEF Bookkeeping, StackInvariant

(***************************************************************************)
(* The tails of the methods and the client.                                *)
(***************************************************************************)
\* When the calls of a mutation are done, no pending tensor reads its target.
LEMMA NobodyWaits ==
    ASSUME Bookkeeping, agenda = <<>>, Mutating, NEW w \in Tensors
    PROVE  ~Waits(w, client.t)
<1>1. \A i \in 1 .. Len(agenda) : FALSE
  BY EmptySeq
<1>2. QED
  BY <1>1 DEF Bookkeeping, Covered

\* An empty stack is in order while nothing is being mutated.
LEMMA EmptyStack ==
    ASSUME agenda' = <<>>, client' = Idle
    PROVE  StackInvariant'
<1>1. \A i \in 1 .. Len(agenda') : FALSE
  BY EmptySeq
<1>2. ~Mutating'
  BY DEF Mutating, Idle
<1>3. QED
  BY <1>1, <1>2 DEF StackInvariant, OnlyComputedLeave, ClearedLast, Covered

\* The tail of insert (tensor.h:605-640).
LEMMA FinishInsertBookkeeping ==
    ASSUME Bookkeeping, FinishInsert
    PROVE  Bookkeeping'
<1>1. TypeInvariant /\ TypeInvariant'
  BY ReturnTypes DEF Bookkeeping, FinishInsert, Returning, Internal
<1>2. agenda' = <<>> /\ client' = Idle
  BY DEF FinishInsert, Returning
<1>3. StackInvariant'
  BY <1>2, EmptyStack
<1>4. UNCHANGED <<assignment, needsCompute, dependents, token>>
      /\ clock' = clock + 1
  BY DEF FinishInsert, code
<1>5. Registered'
  BY <1>4 DEF Bookkeeping, Registered, Waits
<1>6. PackedOrPending'
  <2>1. client.t \in Tensors /\ ~needsCompute[client.t]
    BY <1>1, RequestType DEF Bookkeeping, PackedOrPending, FinishInsert,
       Returning, TypeInvariant, Methods
  <2>2. \A t \in Tensors \ {client.t} : needsPack'[t] = needsPack[t]
    BY <1>1, <2>1 DEF FinishInsert, TypeInvariant, TypeOK
  <2>3. QED
    BY <1>2, <1>4, <2>1, <2>2 DEF Bookkeeping, PackedOrPending, Idle
<1>7. NotItself'
  BY <1>2 DEF NotItself, Idle
<1>8. TokensDrawn'
  <2>1. \A t \in Tensors : token[t] \in Nat /\ token[t] <= clock
    BY <1>1 DEF Bookkeeping, TokensDrawn, TypeInvariant, TypeOK
  <2>2. clock \in Nat
    BY <1>1 DEF TypeInvariant, TypeOK
  <2>3. QED
    BY <1>4, <2>1, <2>2 DEF TokensDrawn
<1>9. QED
  BY <1>1, <1>3, <1>5, <1>6, <1>7, <1>8 DEF Bookkeeping, StackInvariant

\* The tail of an assignment (tensor.cpp:500-530).
LEMMA FinishAssignBookkeeping ==
    ASSUME Bookkeeping, FinishAssign
    PROVE  Bookkeeping'
<1>1. TypeInvariant /\ TypeInvariant'
  BY ReturnTypes DEF Bookkeeping, FinishAssign, Returning, Internal
<1>2. agenda' = <<>> /\ client' = Idle
  BY DEF FinishAssign, Returning
<1>3. StackInvariant'
  BY <1>2, EmptyStack
<1>4. client.t \in Tensors
  BY <1>1, RequestType DEF FinishAssign, Returning, TypeInvariant, Methods
<1>5. /\ \/ dependents' = Rewired(client.t, client.rhs)
         \/ dependents' = Joined(client.t, client.rhs)
      /\ assignment'[client.t] = client.rhs
      /\ \A t \in Tensors \ {client.t} :
            assignment'[t] = assignment[t] /\ needsCompute'[t] = needsCompute[t]
  <2>1. /\ \/ dependents' = Rewired(client.t, client.rhs)
           \/ dependents' = Joined(client.t, client.rhs)
        /\ assignment' = [assignment EXCEPT ![client.t] = client.rhs]
        /\ needsCompute' = [needsCompute EXCEPT ![client.t] = TRUE]
    BY DEF FinishAssign
  <2>2. QED
    BY <1>1, <1>4, <2>1 DEF TypeInvariant, TypeOK
<1>6. Registered'
  <2> SUFFICES ASSUME NEW t \in Tensors, NEW u \in Tensors, Waits(t, u)'
               PROVE  Member(t, dependents'[u])
    BY DEF Registered, Member
  <2>1. CASE t = client.t
    <3>1. u \in client.rhs.operands
      BY <1>5, <2>1 DEF Waits
    <3>2. QED
      BY <1>1, <1>4, <1>5, <2>1, <3>1, RewiredKeeps, JoinedKeeps
         DEF TypeInvariant
  <2>2. CASE t # client.t
    <3>1. Waits(t, u)
      BY <1>5, <2>2 DEF Waits
    <3>2. Member(t, dependents[u])
      BY <3>1 DEF Bookkeeping, Registered, Member
    <3>3. QED
      BY <1>1, <1>4, <1>5, <2>2, <3>2, RewiredKeeps, JoinedKeeps
         DEF TypeInvariant
  <2>3. QED
    BY <2>1, <2>2
<1>7. PackedOrPending'
  <2>1. /\ ~needsPack'[client.t]
        /\ \A t \in Tensors \ {client.t} : needsPack'[t] = needsPack[t]
    BY <1>1, <1>4 DEF FinishAssign, TypeInvariant, TypeOK
  <2>2. QED
    BY <1>2, <1>5, <2>1 DEF Bookkeeping, PackedOrPending, Idle
<1>8. NotItself'
  BY <1>2 DEF NotItself, Idle
<1>9. TokensDrawn'
  <2>1. \A t \in Tensors : token[t] \in Nat /\ token[t] <= clock
    BY <1>1 DEF Bookkeeping, TokensDrawn, TypeInvariant, TypeOK
  <2>2. clock \in Nat
    BY <1>1 DEF TypeInvariant, TypeOK
  <2>3. clock' = clock + 1 /\ \A t \in Tensors :
            token'[t] = IF t = client.t THEN clock + 1 ELSE token[t]
    BY <1>1, <1>4 DEF FinishAssign, TypeInvariant, TypeOK
  <2>4. QED
    BY <2>1, <2>2, <2>3 DEF TokensDrawn
<1>10. QED
  BY <1>1, <1>3, <1>6, <1>7, <1>8, <1>9 DEF Bookkeeping, StackInvariant

\* What a client's request puts on the stack for a mutation: a syncValues for
\* every registered dependent, then the clearing of the list
\* (tensor.cpp:714-720).
LEMMA MutationStack ==
    ASSUME Bookkeeping, NEW t \in Tensors, NEW op \in {"insert", "assign"},
           NEW rhs, Call(op, t, rhs, SyncDependents(t))
    PROVE  StackInvariant'
<1> DEFINE ops == dependents[t]
           front == SyncAll(ops) \o <<Do("clearDependents", t)>>
<1>1. ops \in Seq(Tensors) /\ "clearDependents" \in Calls
  BY DEF Bookkeeping, TypeInvariant, TypeOK, Calls
<1>2. /\ Len(front) = Len(ops) + 1
      /\ \A i \in 1 .. Len(ops) : front[i] = Do("syncValues", ops[i])
      /\ front[Len(ops) + 1] = Do("clearDependents", t)
  <2> HIDE DEF ops
  <2>1. front = SyncAll(ops) \o <<Do("clearDependents", t)>>
    OBVIOUS
  <2> HIDE DEF front
  <2>2. QED
    BY <1>1, <2>1, SyncAllThen
<1>3. /\ agenda' = front /\ client'.op = op /\ client'.t = t
      /\ UNCHANGED <<assignment, needsCompute, dependents>>
  BY DEF Call, SyncDependents, flags, code
<1>4. Len(ops) \in Nat
  BY <1>1, LenProperties
<1> HIDE DEF front, ops
<1>5. ASSUME NEW i \in 1 .. Len(agenda')
      PROVE  \/ i \in 1 .. Len(ops) /\ agenda'[i].call = "syncValues"
             \/ i = Len(agenda') /\ agenda'[i] = Do("clearDependents", t)
  <2>1. i \in 1 .. Len(ops) \/ i = Len(ops) + 1
    BY <1>2, <1>3, <1>4
  <2>2. CASE i \in 1 .. Len(ops)
    <3>1. agenda'[i] = Do("syncValues", ops[i])
      BY <1>2, <1>3, <2>2
    <3>2. Do("syncValues", ops[i]).call = "syncValues"
      BY DEF Do
    <3>3. QED
      BY <2>2, <3>1, <3>2
  <2>3. CASE i = Len(ops) + 1
    BY <1>2, <1>3, <2>3
  <2>4. QED
    BY <2>1, <2>2, <2>3
<1>6. OnlyComputedLeave'
  BY <1>5 DEF OnlyComputedLeave, Do
<1>7. ClearedLast'
  BY <1>3, <1>5 DEF ClearedLast, Mutating, Do
<1>8. Covered'
  <2> SUFFICES ASSUME NEW w \in Tensors, Waits(w, t)'
               PROVE  \E i \in 1 .. Len(agenda') : Will(w, agenda'[i])
    BY <1>3 DEF Covered, Waits
  <2>1. Waits(w, t)
    BY <1>3 DEF Waits
  <2>2. PICK k \in 1 .. Len(ops) : ops[k] = w
    BY <2>1 DEF Bookkeeping, Registered, ops
  <2>3. agenda'[k] = Do("syncValues", w)
    BY <1>2, <1>3, <2>2
  <2>4. k \in 1 .. Len(agenda')
    BY <1>2, <1>3, <1>4, <2>2
  <2>5. QED
    BY <2>3, <2>4 DEF Will, Do
<1>9. QED
  BY <1>6, <1>7, <1>8 DEF StackInvariant

\* What every method that only puts calls on the stack leaves alone.
LEMMA CallBookkeeping ==
    ASSUME Bookkeeping, TypeInvariant', StackInvariant',
           NEW op, NEW t \in Tensors, NEW rhs, NEW calls,
           Call(op, t, rhs, calls),
           op = "insert" => ~needsCompute[t],
           op = "assign" => t \notin rhs.operands
    PROVE  Bookkeeping'
<1>1. /\ UNCHANGED <<needsPack, needsCompute, assignment, dependents, clock,
                     token>>
      /\ client'.op = op /\ client'.t = t /\ client'.rhs = rhs
  BY DEF Call, flags, code, ghosts
<1>2. Registered'
  BY <1>1 DEF Bookkeeping, Registered, Waits
<1>3. PackedOrPending' /\ NotItself'
  BY <1>1 DEF Bookkeeping, PackedOrPending, NotItself
<1>4. TokensDrawn'
  BY <1>1 DEF Bookkeeping, TokensDrawn
<1>5. QED
  BY <1>2, <1>3, <1>4 DEF Bookkeeping, StackInvariant

\* A method that mutates nothing neither clears nor leaves a list.
LEMMA ReadBookkeeping ==
    ASSUME Bookkeeping, TypeInvariant', NEW t \in Tensors,
           NEW op \in Methods \ {"insert", "assign"}, NEW rhs, NEW calls,
           Call(op, t, rhs, calls),
           \A i \in 1 .. Len(calls) :
              calls[i].call \notin {"clearDependents", "removeDependent"}
    PROVE  Bookkeeping'
<1>1. agenda' = calls /\ client'.op = op
  BY DEF Call
<1>2. StackInvariant'
  BY <1>1 DEF StackInvariant, OnlyComputedLeave, ClearedLast, Covered, Mutating
<1>3. QED
  BY <1>2, CallBookkeeping

\* The calls the methods that mutate nothing put on the stack.
Steps == {"syncValues", "compile", "assemble", "compute"}
LEMMA ShortCalls ==
    ASSUME NEW t, NEW c \in Steps, NEW d \in Steps, NEW e \in Steps
    PROVE  \A calls \in {<<>>, <<Do(c, t)>>, <<Do(c, t), Do(d, t)>>,
                         <<Do(c, t), Do(d, t), Do(e, t)>>} :
              \A i \in 1 .. Len(calls) :
                 calls[i].call \notin {"clearDependents", "removeDependent"}
<1>1. \A x \in Steps : Do(x, t).call \notin {"clearDependents",
                                             "removeDependent"}
  BY DEF Steps, Do
<1>2. QED
  BY <1>1

\* Every public method keeps the invariant, unless it inserts into a tensor
\* that is pending.
LEMMA ClientBookkeeping ==
    ASSUME "insertPending" \notin Usage, Bookkeeping,
           NEW t \in Tensors, Client(t)
    PROVE  Bookkeeping'
<1>1. TypeInvariant /\ TypeInvariant'
  BY ClientTypes DEF Bookkeeping
<1>2. client = Idle => agenda = <<>>
  BY <1>1 DEF TypeInvariant, TypeOK
<1>3. CASE Insert(t)
  <2>1. Call("insert", t, Undefined, SyncDependents(t)) /\ ~needsCompute[t]
    BY <1>3 DEF Insert
  <2>2. StackInvariant'
    BY <2>1, MutationStack
  <2>3. QED
    BY <1>1, <2>1, <2>2, CallBookkeeping
<1>4. CASE \E rhs \in Expressions : Assign(t, rhs)
  <2>1. PICK rhs \in Expressions : Assign(t, rhs)
    BY <1>4
  <2>2. Call("assign", t, rhs, SyncDependents(t)) /\ t \notin rhs.operands
    BY <2>1 DEF Assign
  <2>3. StackInvariant'
    BY <2>2, MutationStack
  <2>4. QED
    BY <1>1, <2>2, <2>3, CallBookkeeping
<1>5. ASSUME NEW op \in Methods \ {"insert", "assign"}, NEW calls,
             NEW c \in Steps, NEW d \in Steps, NEW e \in Steps,
             Call(op, t, Undefined, calls),
             calls \in {<<>>, <<Do(c, t)>>, <<Do(c, t), Do(d, t)>>,
                        <<Do(c, t), Do(d, t), Do(e, t)>>}
      PROVE  Bookkeeping'
  <2>1. \A i \in 1 .. Len(calls) :
           calls[i].call \notin {"clearDependents", "removeDependent"}
    BY <1>5, ShortCalls
  <2>2. QED
    BY <1>1, <1>5, <2>1, ReadBookkeeping
<1>6. /\ "syncValues" \in Steps /\ "compile" \in Steps /\ "assemble" \in Steps
      /\ "compute" \in Steps
      /\ {"at", "iterate", "compile", "assemble", "compute", "evaluate"}
            \subseteq Methods \ {"insert", "assign"}
  BY DEF Steps, Methods
<1>7. CASE At(t)
  BY <1>5, <1>6, <1>7 DEF At
<1>8. CASE Iterate(t)
  BY <1>5, <1>6, <1>8 DEF Iterate
<1>9. CASE Evaluate(t)
  BY <1>5, <1>6, <1>9 DEF Evaluate
<1>10. CASE CompileTensor(t)
  BY <1>5, <1>6, <1>10 DEF CompileTensor
<1>11. CASE AssembleTensor(t)
  BY <1>5, <1>6, <1>11 DEF AssembleTensor
<1>12. CASE ComputeTensor(t)
  BY <1>5, <1>6, <1>12 DEF ComputeTensor
<1>13. CASE PackTensor(t) \/ SetAssembleWhileCompute(t) \/ SetStorage(t)
  <2>1. /\ agenda' = <<>> /\ client' = Idle
        /\ UNCHANGED <<needsCompute, assignment, dependents, token>>
    BY <1>2, <1>13 DEF PackTensor, Pack, SetAssembleWhileCompute, SetStorage,
       code, ghosts
  <2>2. clock' = clock \/ clock' = clock + 1
    BY <1>13 DEF PackTensor, SetAssembleWhileCompute, SetStorage, ghosts
  <2>3. \/ needsPack' = needsPack
        \/ needsPack' = [needsPack EXCEPT ![t] = FALSE]
    BY <1>13 DEF PackTensor, Pack, SetAssembleWhileCompute, SetStorage
  <2>4. StackInvariant'
    BY <2>1, EmptyStack
  <2>5. Registered'
    BY <2>1 DEF Bookkeeping, Registered, Waits
  <2>6. \A u \in Tensors : needsPack'[u] => needsPack[u]
    BY <1>1, <2>3 DEF TypeInvariant, TypeOK
  <2>7. PackedOrPending'
    BY <2>1, <2>6 DEF Bookkeeping, PackedOrPending, Idle
  <2>8. NotItself'
    BY <2>1 DEF NotItself, Idle
  <2>9. TokensDrawn'
    <3>1. \A u \in Tensors : token[u] \in Nat /\ token[u] <= clock
      BY <1>1 DEF Bookkeeping, TokensDrawn, TypeInvariant, TypeOK
    <3>2. clock \in Nat
      BY <1>1 DEF TypeInvariant, TypeOK
    <3>3. QED
      BY <2>1, <2>2, <3>1, <3>2 DEF TokensDrawn
  <2>10. QED
    BY <1>1, <2>4, <2>5, <2>7, <2>8, <2>9 DEF Bookkeeping, StackInvariant
<1>14. QED
  BY <1>3, <1>4, <1>7, <1>8, <1>9, <1>10, <1>11, <1>12, <1>13 DEF Client

\* The bookkeeping of delayed assignments is inductive.
LEMMA NextBookkeeping ==
    ASSUME "insertPending" \notin Usage
    PROVE  Bookkeeping /\ [Next]_vars => Bookkeeping'
<1> SUFFICES ASSUME Bookkeeping, [Next]_vars PROVE Bookkeeping'
  OBVIOUS
<1>1. CASE Internal /\ agenda # <<>>
  BY <1>1, StackBookkeeping
<1>2. CASE Internal /\ agenda = <<>>
  <2>1. \A c : ~Executing(c)
    BY <1>2 DEF Executing
  <2>2. FinishInsert \/ FinishAssign \/ Return
    BY <1>2, <2>1 DEF Internal, SyncPack, SyncCompute, SyncNothing,
       CompileUndefined, CompileRejects, CompileAlready, CompileKernel,
       CompileThrows,
       RunUncompiled, AssembleAlready, AssembleOperands, CallAssemble,
       ComputeAlready, ComputeOperands, CallCompute, CallMissing,
       RemoveDependent, ClearDependents
  <2>3. CASE Return
    <3>1. /\ agenda' = <<>> /\ client' = Idle
          /\ UNCHANGED <<needsPack, needsCompute, assignment, dependents,
                         token, clock>>
      BY <1>2, <2>3 DEF Return, flags, code, ghosts
    <3>2. TypeInvariant' /\ StackInvariant'
      BY <1>2, <3>1, ReturnTypes, EmptyStack DEF Bookkeeping
    <3>3. Registered' /\ TokensDrawn'
      BY <3>1 DEF Bookkeeping, Registered, Waits, TokensDrawn
    <3>4. PackedOrPending' /\ NotItself'
      BY <3>1 DEF Bookkeeping, PackedOrPending, NotItself, Idle
    <3>5. QED
      BY <3>2, <3>3, <3>4 DEF Bookkeeping, StackInvariant
  <2>4. QED
    BY <2>2, <2>3, FinishInsertBookkeeping, FinishAssignBookkeeping
<1>3. CASE \E t \in Tensors : Client(t)
  BY <1>3, ClientBookkeeping
<1>4. CASE UNCHANGED vars
  <2>1. TypeInvariant'
    BY <1>4, NextTypeInvariant DEF Bookkeeping
  <2>2. UNCHANGED <<needsPack, needsCompute, assignment, dependents, token,
                    clock, agenda, client>>
    BY <1>4 DEF vars, flags, code, ghosts
  <2>3. QED
    BY <2>1, <2>2 DEF Bookkeeping, Registered, PackedOrPending, Waits,
       OnlyComputedLeave, ClearedLast, Covered, Mutating, NotItself,
       TokensDrawn
<1>5. QED
  BY <1>1, <1>2, <1>3, <1>4 DEF Next

\* Only the tail of an assignment delays anything, and only the tails of
\* insert and assignment, and setStorage, change a value.
LEMMA Quiet ==
    ASSUME TypeInvariant, [Next]_vars, ~FinishAssign
    PROVE  /\ UNCHANGED <<assignment, token, want, spoiled>>
           /\ \A t \in Tensors : needsCompute'[t] => needsCompute[t]
           /\ \/ eager' = eager
              \/ FinishInsert
              \/ \E t \in Tensors : SetStorage(t)
<1>1. CASE Internal /\ agenda # <<>>
  BY <1>1, StackFrame
<1>2. CASE Internal /\ agenda = <<>>
  <2>1. \A c : ~Executing(c)
    BY <1>2 DEF Executing
  <2>2. FinishInsert \/ Return
    BY <1>2, <2>1 DEF Internal, SyncPack, SyncCompute, SyncNothing,
       CompileUndefined, CompileRejects, CompileAlready, CompileKernel,
       CompileThrows,
       RunUncompiled, AssembleAlready, AssembleOperands, CallAssemble,
       ComputeAlready, ComputeOperands, CallCompute, CallMissing,
       RemoveDependent, ClearDependents
  <2>3. QED
    BY <2>2 DEF FinishInsert, Return, flags, code, ghosts
<1>3. CASE \E t \in Tensors : Client(t)
  BY <1>3 DEF Client, Insert, Assign, At, Iterate, Evaluate, CompileTensor,
     AssembleTensor, ComputeTensor, PackTensor, Pack, SetAssembleWhileCompute,
     SetStorage, Call, flags, code, ghosts
<1>4. CASE UNCHANGED vars
  BY <1>4 DEF vars, flags, code, ghosts
<1>5. QED
  BY <1>1, <1>2, <1>3, <1>4 DEF Next

\* A new assignment is the youngest, and nobody pending reads its target.
LEMMA NextAcyclic ==
    Bookkeeping /\ PendingAcyclic /\ [Next]_vars => PendingAcyclic'
<1> SUFFICES ASSUME Bookkeeping, PendingAcyclic, [Next]_vars,
                    NEW t \in Tensors, NEW u \in Tensors,
                    needsCompute'[t], needsCompute'[u],
                    u \in assignment'[t].operands
             PROVE  token'[u] < token'[t]
  BY DEF PendingAcyclic
<1>1. TypeInvariant
  BY DEF Bookkeeping
<1>2. CASE ~FinishAssign
  BY <1>1, <1>2, Quiet DEF PendingAcyclic
<1>3. CASE FinishAssign
  <2>1. client.t \in Tensors /\ Mutating /\ agenda = <<>>
    BY <1>1, <1>3, RequestType
       DEF FinishAssign, Returning, TypeInvariant, Methods, Mutating
  <2>2. /\ assignment' = [assignment EXCEPT ![client.t] = client.rhs]
        /\ needsCompute' = [needsCompute EXCEPT ![client.t] = TRUE]
        /\ token' = [token EXCEPT ![client.t] = clock + 1]
    BY <1>3 DEF FinishAssign
  <2>3. \A w \in Tensors : ~Waits(w, client.t)
    BY <2>1, NobodyWaits
  <2>4. client.t \notin client.rhs.operands
    BY <1>3 DEF Bookkeeping, NotItself, FinishAssign, Returning
  <2>5. \A w \in Tensors : token[w] \in Nat /\ token[w] <= clock
    BY <1>1 DEF Bookkeeping, TokensDrawn, TypeInvariant, TypeOK
  <2>6. clock \in Nat
    BY <1>1 DEF TypeInvariant, TypeOK
  <2>7. CASE t = client.t
    <3>1. u # client.t
      BY <1>1, <2>1, <2>2, <2>4, <2>7 DEF TypeInvariant, TypeOK
    <3>2. token'[u] = token[u] /\ token'[t] = clock + 1
      BY <1>1, <2>1, <2>2, <2>7, <3>1 DEF TypeInvariant, TypeOK
    <3>3. QED
      BY <2>5, <2>6, <3>2
  <2>8. CASE t # client.t
    <3>1. Waits(t, u) /\ u # client.t
      BY <1>1, <2>1, <2>2, <2>3, <2>8 DEF Waits, TypeInvariant, TypeOK
    <3>2. needsCompute[u] /\ token'[u] = token[u] /\ token'[t] = token[t]
      BY <1>1, <2>1, <2>2, <2>8, <3>1 DEF TypeInvariant, TypeOK
    <3>3. QED
      BY <3>1, <3>2 DEF PendingAcyclic, Waits
  <2>9. QED
    BY <2>7, <2>8
<1>4. QED
  BY <1>2, <1>3

\* A value changes only when no pending tensor reads it.
LEMMA NextNamedIsCurrent ==
    ASSUME "setShared" \notin Usage
    PROVE  Bookkeeping /\ NamedIsCurrent /\ [Next]_vars => NamedIsCurrent'
<1> SUFFICES ASSUME Bookkeeping, NamedIsCurrent, [Next]_vars,
                    NEW t \in Tensors, NEW u \in Tensors, Waits(t, u)'
             PROVE  want'[t][u] = eager'[u]
  BY DEF NamedIsCurrent
<1>1. TypeInvariant
  BY DEF Bookkeeping
<1>2. CASE ~FinishAssign
  <2>1. /\ UNCHANGED <<assignment, token, want>>
        /\ \A w \in Tensors : needsCompute'[w] => needsCompute[w]
        /\ \/ eager' = eager
           \/ FinishInsert
           \/ \E w \in Tensors : SetStorage(w)
    BY <1>1, <1>2, Quiet
  <2>2. Waits(t, u) /\ want'[t][u] = eager[u]
    BY <2>1 DEF Waits, NamedIsCurrent
  <2>3. CASE FinishInsert
    <3>1. client.t \in Tensors /\ Mutating /\ agenda = <<>>
      BY <1>1, <2>3, RequestType
         DEF FinishInsert, Returning, TypeInvariant, Methods, Mutating
    <3>2. u # client.t
      BY <2>2, <3>1, NobodyWaits
    <3>3. eager'[u] = eager[u]
      BY <1>1, <2>3, <3>1, <3>2 DEF FinishInsert, TypeInvariant, TypeOK
    <3>4. QED
      BY <2>2, <3>3
  <2>4. CASE \E w \in Tensors : SetStorage(w)
    <3>1. PICK w \in Tensors : SetStorage(w)
      BY <2>4
    <3>2. u # w
      BY <2>2, <3>1 DEF SetStorage, Unsettled, Waits
    <3>3. eager'[u] = eager[u]
      BY <1>1, <3>1, <3>2 DEF SetStorage, TypeInvariant, TypeOK
    <3>4. QED
      BY <2>2, <3>3
  <2>5. QED
    BY <2>1, <2>2, <2>3, <2>4
<1>3. CASE FinishAssign
  <2>1. client.t \in Tensors /\ Mutating /\ agenda = <<>>
    BY <1>1, <1>3, RequestType
       DEF FinishAssign, Returning, TypeInvariant, Methods, Mutating
  <2>2. /\ assignment' = [assignment EXCEPT ![client.t] = client.rhs]
        /\ needsCompute' = [needsCompute EXCEPT ![client.t] = TRUE]
        /\ eager' = [eager EXCEPT ![client.t] = {clock + 1}]
        /\ want' = [want EXCEPT ![client.t] =
                      [v \in Tensors |->
                          IF v \in client.rhs.operands THEN eager[v] ELSE {}]]
    BY <1>3 DEF FinishAssign
  <2>3. \A w \in Tensors : ~Waits(w, client.t)
    BY <2>1, NobodyWaits
  <2>4. client.t \notin client.rhs.operands
    BY <1>3 DEF Bookkeeping, NotItself, FinishAssign, Returning
  <2>5. CASE t = client.t
    <3>1. u \in client.rhs.operands /\ u # client.t
      BY <1>1, <2>1, <2>2, <2>4, <2>5 DEF Waits, TypeInvariant, TypeOK
    <3>2. want'[t][u] = eager[u] /\ eager'[u] = eager[u]
      BY <1>1, <2>1, <2>2, <2>5, <3>1 DEF TypeInvariant, TypeOK
    <3>3. QED
      BY <3>2
  <2>6. CASE t # client.t
    <3>1. Waits(t, u) /\ u # client.t
      BY <1>1, <2>1, <2>2, <2>3, <2>6 DEF Waits, TypeInvariant, TypeOK
    <3>2. want'[t] = want[t] /\ eager'[u] = eager[u]
      BY <1>1, <2>1, <2>2, <2>6, <3>1 DEF TypeInvariant, TypeOK
    <3>3. QED
      BY <3>1, <3>2 DEF NamedIsCurrent
  <2>7. QED
    BY <2>5, <2>6
<1>4. QED
  BY <1>2, <1>3

(***************************************************************************)
(* The theorems.                                                           *)
(***************************************************************************)
\* Nothing is pending in a program that has only built its tensors.
LEMMA InitBookkeeping ==
    Init => Bookkeeping /\ PendingAcyclic /\ NamedIsCurrent
<1> SUFFICES ASSUME Init
             PROVE  Bookkeeping /\ PendingAcyclic /\ NamedIsCurrent
  OBVIOUS
<1>1. TypeInvariant
  BY InitTypeInvariant
<1>2. \A t \in Tensors : ~needsCompute[t] /\ token[t] = 0
  BY DEF Init
<1>3. client = Idle /\ clock = 0 /\ \A i \in 1 .. Len(agenda) : FALSE
  BY EmptySeq DEF Init
<1>4. Bookkeeping
  BY <1>1, <1>2, <1>3 DEF Bookkeeping, Registered, PackedOrPending, Waits,
     OnlyComputedLeave, ClearedLast, Covered, Mutating, NotItself,
     TokensDrawn, Idle
<1>5. QED
  BY <1>2, <1>4 DEF PendingAcyclic, NamedIsCurrent, Waits

\* Delayed assignments never read each other in a circle, whatever the client
\* assigns and whichever compilations throw, unless it inserts into a tensor
\* that is pending: the recursion of syncValues is over a set of tensors
\* ordered by the time of their assignments (tensor.cpp:667-832).
THEOREM PendingAcyclicHolds ==
    ASSUME "insertPending" \notin Usage PROVE Spec => []PendingAcyclic
<1>1. Init => Bookkeeping /\ PendingAcyclic
  BY InitBookkeeping
<1>2. Bookkeeping /\ [Next]_vars => Bookkeeping'
  BY NextBookkeeping
<1>3. Bookkeeping /\ PendingAcyclic /\ [Next]_vars => PendingAcyclic'
  BY NextAcyclic
<1>4. QED
  BY <1>1, <1>2, <1>3, PTL DEF Spec

\* A delayed assignment still reads what it named, and every operand still
\* knows the tensors that wait for it, unless the client inserts into a
\* pending tensor or replaces the storage of one that is being waited for
\* (tensor.cpp:500-530, 714-720).
THEOREM PendingIsCurrentHolds ==
    ASSUME "insertPending" \notin Usage, "setShared" \notin Usage
    PROVE  Spec => []PendingIsCurrent
<1>1. Init => Bookkeeping /\ NamedIsCurrent
  BY InitBookkeeping
<1>2. Bookkeeping /\ [Next]_vars => Bookkeeping'
  BY NextBookkeeping
<1>3. Bookkeeping /\ NamedIsCurrent /\ [Next]_vars => NamedIsCurrent'
  BY NextNamedIsCurrent
<1>4. Bookkeeping /\ NamedIsCurrent => PendingIsCurrent
  <2> SUFFICES ASSUME Bookkeeping, NamedIsCurrent, NEW t \in Tensors,
                      needsCompute[t], NEW u \in assignment[t].operands
               PROVE  want[t][u] = eager[u] /\ t \in Range(dependents[u])
    BY DEF PendingIsCurrent
  <2>1. TypeOK
    BY DEF Bookkeeping, TypeInvariant
  <2>2. u \in Tensors /\ Waits(t, u)
    BY <2>1, OperandsType DEF Waits
  <2>3. PICK k \in 1 .. Len(dependents[u]) : dependents[u][k] = t
    BY <2>2 DEF Bookkeeping, Registered
  <2>4. DOMAIN dependents[u] = 1 .. Len(dependents[u])
    BY <2>1, <2>2, LenProperties DEF TypeOK
  <2>5. QED
    BY <2>2, <2>3, <2>4 DEF NamedIsCurrent, Range
<1>5. QED
  BY <1>1, <1>2, <1>3, <1>4, PTL DEF Spec

(***************************************************************************)
(* The call stack.                                                         *)
(***************************************************************************)
Has(frame, c, t) == frame.call = c /\ frame.t = t

\* Nothing that t was made from, however indirectly, cannot be compiled.
Clean(t) == ~spoiled[t]

\* No call on the stack runs the compute function of a clean tensor.
NoRuns ==
    \A i \in 1 .. Len(agenda) :
        agenda[i].call = "callCompute" => ~Clean(agenda[i].t)

\* The module of the tensor that agenda[i] assembles or computes is, or is
\* about to be, compiled; if it is not, then the client asked for the stage
\* itself, and throwing interrupts no computation.
Compiled(i) ==
    LET t == agenda[i].t IN
    \/ ~needsCompile[t]
    \/ Has(agenda[1], "compile", t)
    \/ i = 1 /\ NoRuns

ByIsSelf ==
    \A i \in 1 .. Len(agenda) :
        agenda[i].call # "removeDependent" => agenda[i].by = agenda[i].t

CompileFirst ==
    \A i \in 1 .. Len(agenda) : agenda[i].call = "compile" =>
        i = 1 /\ (assignment[agenda[1].t].defined \/ NoRuns)

\* assemble() is called at once, or once its tensor is compiled, and for a
\* clean tensor only when its computation is to follow.
AssembleFirst ==
    \A i \in 1 .. Len(agenda) : agenda[i].call = "assemble" =>
        /\ i = 1 \/ (i = 2 /\ Has(agenda[1], "compile", agenda[i].t))
        /\ Compiled(i)
        /\ Clean(agenda[i].t) /\ needsAssemble[agenda[i].t]
              => needsCompute[agenda[i].t]

\* A clean tensor is computed into arrays it allocates itself, or has, and
\* only a compound assignment is computed without being assembled.
Room(t) ==
    fused[t] \/ (allocated[t] /\ (needsAssemble[t] => assignment[t].compound))
Assembling(frame, t) ==
    Has(frame, "assemble", t) \/ Has(frame, "callAssemble", t)

ComputeReady ==
    \A i \in 1 .. Len(agenda) : agenda[i].call = "compute" =>
        /\ Compiled(i)
        /\ Clean(agenda[i].t) /\ needsCompute[agenda[i].t] =>
              \/ Room(agenda[i].t)
              \/ \E k \in 1 .. i - 1 : Assembling(agenda[k], agenda[i].t)

CallAssembleReady ==
    \A i \in 1 .. Len(agenda) :
        agenda[i].call = "callAssemble" /\ Clean(agenda[i].t)
        => ~needsCompile[agenda[i].t] /\ needsCompute[agenda[i].t]

RunReady(t) ==
    /\ ~needsCompile[t] /\ ~needsCompute[t] /\ ~needsPack[t]
    /\ assignment[t].defined
    /\ Room(t)

CallComputeReady ==
    \A i \in 1 .. Len(agenda) :
        agenda[i].call = "callCompute" /\ Clean(agenda[i].t)
        => RunReady(agenda[i].t)

\* The calls that work towards the computation of their tensor.
Stages == {"compile", "assemble", "callAssemble", "compute", "callCompute"}
Works(frame) ==
    \/ frame.call \in Stages
    \/ frame.call = "syncValues" /\ needsCompute[frame.t]

\* What is done before a clean tensor is assembled or computed is done for
\* clean tensors that were assigned before it.
Descending ==
    \A i, j \in 1 .. Len(agenda) :
        /\ i < j
        /\ agenda[j].call \in {"callAssemble", "callCompute"}
        /\ Clean(agenda[j].t)
        /\ Works(agenda[i])
        => token[agenda[i].t] < token[agenda[j].t] /\ Clean(agenda[i].t)

\* What an operand still needs is done before the compute function runs.
Packs(frame, u) == Has(frame, "syncValues", u)
Served ==
    \A j \in 1 .. Len(agenda) : agenda[j].call = "callCompute" =>
        \A u \in assignment[agenda[j].t].operands :
            /\ needsPack[u] => \E i \in 1 .. j - 1 : Packs(agenda[i], u)
            /\ needsCompute[u] => \E i \in 1 .. j - 1 : Will(u, agenda[i])

\* The same for the tensor a client reads.
Reads == {"at", "iterate"}
ReadServed ==
    client.op \in Reads =>
        /\ needsPack[client.t] =>
              \E i \in 1 .. Len(agenda) : Packs(agenda[i], client.t)
        /\ needsCompute[client.t] =>
              \E i \in 1 .. Len(agenda) : Will(client.t, agenda[i])

Orderly ==
    /\ ByIsSelf /\ CompileFirst /\ AssembleFirst
    /\ ComputeReady /\ CallAssembleReady /\ CallComputeReady
    /\ Descending /\ Served /\ ReadServed

(***************************************************************************)
(* Executing a call.                                                       *)
(***************************************************************************)
\* What every call that returns or makes further calls leaves alone: flags
\* only fall, and only the tensor itself is computed or assembled.
Falls ==
    /\ UNCHANGED <<assignment, token, fused, client, spoiled>>
    /\ \A t \in Tensors :
          /\ needsPack'[t] => needsPack[t]
          /\ needsCompile'[t] => needsCompile[t]
          /\ needsAssemble'[t] => needsAssemble[t]
          /\ needsCompute'[t] => needsCompute[t]
          /\ allocated[t] => allocated'[t]
    /\ Head(agenda).call # "compute" => needsCompute' = needsCompute
    /\ \A t \in Tensors \ {self} : needsCompute'[t] = needsCompute[t]

\* What the call does to its own tensor.
Does(front) ==
    LET call == Head(agenda).call
    IN  /\ call = "compile" => front = <<>> /\ ~needsCompile'[self]
        /\ call = "assemble" /\ Clean(self) =>
              \/ (allocated'[self] /\ ~needsAssemble'[self])
              \/ ~needsCompute[self]
              \/ \E i \in 1 .. Len(front) : Has(front[i], "callAssemble", self)
        /\ call = "callAssemble" =>
              fused[self] \/ (allocated'[self] /\ ~needsAssemble'[self])
        /\ call = "callCompute" => front = <<>>
        /\ needsCompute[self] /\ ~needsCompute'[self]
              => \E i \in 1 .. Len(front) : Has(front[i], "callCompute", self)
        /\ call = "syncValues" => ~needsPack'[self]
        /\ Will(self, Head(agenda)) /\ needsCompute'[self]
              => \E i \in 1 .. Len(front) : Will(self, front[i])
        /\ front # <<>> => Works(Head(agenda))

\* The calls it makes.
Makes(front) ==
    \A i \in 1 .. Len(front) :
        LET call == front[i].call
            t    == front[i].t
        IN  /\ call # "removeDependent" => front[i].by = t
            /\ call \in Stages => t = self
            /\ call = "compile" => i = 1 /\ assignment[self].defined
            /\ call = "assemble" => /\ i = 2 /\ Has(front[1], "compile", self)
                                    /\ needsCompute'[self]
            /\ call = "compute" =>
                  /\ i = 3 /\ Has(front[1], "compile", self)
                  /\ Has(front[2], "assemble", self)
            /\ call = "callAssemble" /\ Clean(self)
                  => ~needsCompile'[self] /\ needsCompute'[self]
            /\ call = "callCompute" =>
                  /\ Clean(self) => RunReady(t)'
                  /\ needsCompute[self]
                  /\ \A u \in assignment[self].operands :
                        \E k \in 1 .. i - 1 : Packs(front[k], u)
            /\ call \in {"callAssemble", "callCompute"} =>
                  \A k \in 1 .. i - 1 : front[k].call \notin Stages
            /\ call = "syncValues" /\ needsCompute'[t] /\ Clean(self)
                  => token[t] < token[self] /\ Clean(t)

\* Where the calls are afterwards.
LEMMA Positions ==
    ASSUME TypeOK, agenda # <<>>, NEW front \in Seq(Frames),
           agenda' = front \o rest
    PROVE  LET m == Len(front)
               n == Len(agenda)
           IN  /\ m \in Nat /\ n \in Nat \ {0} /\ Len(agenda') = m + n - 1
               /\ \A i \in 1 .. Len(agenda') :
                     \/ i \in 1 .. m /\ agenda'[i] = front[i]
                     \/ \E j \in 2 .. n : i = m + j - 1 /\ agenda'[i] = agenda[j]
               /\ \A i \in 1 .. m :
                     i \in 1 .. Len(agenda') /\ agenda'[i] = front[i]
               /\ \A j \in 2 .. n :
                     /\ m + j - 1 \in 1 .. Len(agenda')
                     /\ agenda'[m + j - 1] = agenda[j]
               /\ Head(agenda) = agenda[1] /\ 1 \in 1 .. n
               /\ \A i \in 1 .. n : agenda[i] \in Frames
               /\ \A i \in 1 .. m : front[i] \in Frames
<1> DEFINE m == Len(front)
           n == Len(agenda)
<1>1. /\ m \in Nat /\ n \in Nat \ {0}
      /\ Len(agenda') = m + n - 1
      /\ \A i \in 1 .. m : agenda'[i] = front[i]
      /\ \A i \in 2 .. n : agenda'[m + i - 1] = agenda[i]
      /\ Head(agenda) = agenda[1]
  BY Push
<1>2. /\ \A i \in 1 .. n : agenda[i] \in Frames
      /\ \A i \in 1 .. m : front[i] \in Frames
  BY ElementOfSeq DEF TypeOK
<1> HIDE DEF m, n
<1>3. ASSUME NEW i \in 1 .. Len(agenda')
      PROVE  \/ i \in 1 .. m /\ agenda'[i] = front[i]
             \/ \E j \in 2 .. n : i = m + j - 1 /\ agenda'[i] = agenda[j]
  <2>1. CASE i \in 1 .. m
    BY <1>1, <2>1
  <2>2. CASE i \notin 1 .. m
    <3>1. i - m + 1 \in 2 .. n /\ i = m + (i - m + 1) - 1
      BY <1>1, <2>2
    <3>2. QED
      BY <1>1, <3>1
  <2>3. QED
    BY <2>1, <2>2
<1>4. /\ \A i \in 1 .. m : i \in 1 .. Len(agenda')
      /\ \A j \in 2 .. n : m + j - 1 \in 1 .. Len(agenda')
      /\ 1 \in 1 .. n
  BY <1>1
<1>5. QED
  BY <1>1, <1>2, <1>3, <1>4 DEF m, n

\* A call in front of the j-th that is not the first stays in front of it.
LEMMA Shifted ==
    ASSUME NEW m \in Nat, NEW n \in Nat \ {0}, NEW j \in 2 .. n, NEW k \in 1 .. j - 1,
           k # 1
    PROVE  k \in 2 .. n /\ m + k - 1 \in 1 .. (m + j - 1) - 1
OBVIOUS

\* Executing a call keeps the call stack in order.
LEMMA OrderlyKeeps ==
    ASSUME TypeOK, Orderly, agenda # <<>>, NEW front \in Seq(Frames),
           agenda' = front \o rest, Falls, Does(front), Makes(front)
    PROVE  Orderly'
<1> DEFINE m == Len(front)
           n == Len(agenda)
<1>1. /\ m \in Nat /\ n \in Nat \ {0} /\ Len(agenda') = m + n - 1
      /\ \A i \in 1 .. Len(agenda') :
            \/ i \in 1 .. m /\ agenda'[i] = front[i]
            \/ \E j \in 2 .. n : i = m + j - 1 /\ agenda'[i] = agenda[j]
      /\ \A i \in 1 .. m : i \in 1 .. Len(agenda') /\ agenda'[i] = front[i]
      /\ \A j \in 2 .. n :
            /\ m + j - 1 \in 1 .. Len(agenda')
            /\ agenda'[m + j - 1] = agenda[j]
      /\ Head(agenda) = agenda[1] /\ 1 \in 1 .. n
      /\ \A i \in 1 .. n : agenda[i] \in Frames
      /\ \A i \in 1 .. m : front[i] \in Frames
  BY Positions
<1>2. self = agenda[1].t /\ self \in Tensors
  BY <1>1 DEF self, Frames
<1>3. /\ \A i \in 1 .. n : agenda[i].t \in Tensors
      /\ \A i \in 1 .. m : front[i].t \in Tensors
  BY <1>1 DEF Frames
<1>4. \A t \in Tensors : token[t] \in Int
  BY DEF TypeOK
<1>5. front = <<>> => m = 0
  BY EmptySeq
<1> HIDE DEF m, n
<1>len. m \in Nat /\ n \in Nat \ {0} /\ Len(agenda') = m + n - 1
  BY <1>1
<1>above. \A i \in 1 .. m : i \in 1 .. Len(agenda') /\ agenda'[i] = front[i]
  BY <1>1
<1>below. \A j \in 2 .. n : j \in 1 .. n /\ agenda'[m + j - 1] = agenda[j]
  BY <1>1
<1>6. ByIsSelf'
  <2> SUFFICES ASSUME NEW i \in 1 .. Len(agenda'),
                      agenda'[i].call # "removeDependent"
               PROVE  agenda'[i].by = agenda'[i].t
    BY DEF ByIsSelf
  <2>1. CASE i \in 1 .. m /\ agenda'[i] = front[i]
    BY <2>1 DEF Makes, m
  <2>2. CASE \E j \in 2 .. n : i = m + j - 1 /\ agenda'[i] = agenda[j]
    BY <1>1, <2>2 DEF Orderly, ByIsSelf, n
  <2>3. QED
    BY <1>1, <2>1, <2>2
<1>7. CompileFirst'
  <2> SUFFICES ASSUME NEW i \in 1 .. Len(agenda'), agenda'[i].call = "compile"
               PROVE  i = 1 /\ assignment'[agenda'[1].t].defined
    BY DEF CompileFirst
  <2>1. CASE i \in 1 .. m /\ agenda'[i] = front[i]
    BY <1>2, <2>1 DEF Makes, m, Falls, Stages
  <2>2. CASE \E j \in 2 .. n : i = m + j - 1 /\ agenda'[i] = agenda[j]
    BY <1>1, <2>2 DEF Orderly, CompileFirst, n
  <2>3. QED
    BY <1>1, <2>1, <2>2
\* A call further down is compiled when the call on top has been.
<1>8. ASSUME NEW j \in 2 .. n, Compiled(j)
      PROVE  ~needsCompile'[agenda[j].t]
  <2>1. agenda[j].t \in Tensors
    BY <1>1, <1>3
  <2>2. CASE ~needsCompile[agenda[j].t]
    BY <2>1, <2>2 DEF Falls
  <2>3. CASE Has(agenda[1], "compile", agenda[j].t)
    BY <1>1, <1>2, <2>3 DEF Has, Does
  <2>4. QED
    BY <1>8, <2>2, <2>3 DEF Compiled
<1>9. AssembleFirst'
  <2> SUFFICES ASSUME NEW i \in 1 .. Len(agenda'), agenda'[i].call = "assemble"
               PROVE  /\ i = 1 \/ (i = 2 /\ Has(agenda'[1], "compile", agenda'[i].t))
                      /\ Compiled(i)'
                      /\ Clean(agenda'[i].t) /\ needsAssemble'[agenda'[i].t]
                            => needsCompute'[agenda'[i].t]
    BY DEF AssembleFirst, Has, Falls, Clean
  <2>1. CASE i \in 1 .. m /\ agenda'[i] = front[i]
    <3>1. i = 2 /\ Has(front[1], "compile", self) /\ needsCompute'[self]
          /\ front[i].t = self
      BY <2>1 DEF Makes, m, Stages
    <3>2. agenda'[1] = front[1]
      BY <1>1, <2>1, <3>1
    <3>3. QED
      BY <2>1, <3>1, <3>2 DEF Has, Compiled
  <2>2. ASSUME NEW j \in 2 .. n, i = m + j - 1, agenda'[i] = agenda[j]
        PROVE  /\ i = 1 \/ (i = 2 /\ Has(agenda'[1], "compile", agenda'[i].t))
               /\ Compiled(i)'
               /\ Clean(agenda'[i].t) /\ needsAssemble'[agenda'[i].t]
                     => needsCompute'[agenda'[i].t]
    <3>1. /\ j = 2 /\ Has(agenda[1], "compile", agenda[j].t)
          /\ Compiled(j)
          /\ Clean(agenda[j].t) /\ needsAssemble[agenda[j].t]
                => needsCompute[agenda[j].t]
      BY <1>1, <2>2 DEF Orderly, AssembleFirst, n
    <3>2. front = <<>> /\ needsCompute' = needsCompute
      BY <1>1, <3>1 DEF Has, Does, Falls
    <3>3. i = 1
      BY <1>5, <2>2, <3>1, <3>2
    <3>4. ~needsCompile'[agenda[j].t]
      BY <1>8, <3>1
    <3>5. needsAssemble'[agenda[j].t] => needsAssemble[agenda[j].t]
      BY <1>1, <1>3 DEF Falls
    <3>6. QED
      BY <2>2, <3>1, <3>2, <3>3, <3>4, <3>5 DEF Compiled
  <2>3. \/ i \in 1 .. m /\ agenda'[i] = front[i]
        \/ \E j \in 2 .. n : i = m + j - 1 /\ agenda'[i] = agenda[j]
    BY <1>1
  <2>4. QED
    BY <2>1, <2>2, <2>3
<1>10. ComputeReady'
  <2> SUFFICES ASSUME NEW i \in 1 .. Len(agenda'), agenda'[i].call = "compute"
               PROVE  /\ Compiled(i)'
                      /\ Clean(agenda'[i].t) /\ needsCompute'[agenda'[i].t] =>
                            \/ Room(agenda[i].t)'
                            \/ \E k \in 1 .. i - 1 :
                                  Assembling(agenda'[k], agenda'[i].t)
    BY DEF ComputeReady, Assembling, Has, Falls, Clean
  <2>1. CASE i \in 1 .. m /\ agenda'[i] = front[i]
    <3>1. /\ i = 3 /\ front[i].t = self
          /\ Has(front[1], "compile", self) /\ Has(front[2], "assemble", self)
      BY <2>1 DEF Makes, m, Stages
    <3>2. 1 \in 1 .. m /\ 2 \in 1 .. m /\ 2 \in 1 .. i - 1
      BY <1>1, <2>1, <3>1
    <3>3. agenda'[1] = front[1] /\ agenda'[2] = front[2]
      BY <1>1, <3>2
    <3>4. QED
      BY <2>1, <3>1, <3>2, <3>3 DEF Has, Compiled, Assembling
  <2>2. ASSUME NEW j \in 2 .. n, i = m + j - 1, agenda'[i] = agenda[j],
               needsCompute'[agenda[j].t], Clean(agenda[j].t)
        PROVE  \/ Room(agenda[i].t)'
               \/ \E k \in 1 .. i - 1 : Assembling(agenda'[k], agenda[j].t)
    <3>1. agenda[j].t \in Tensors /\ j \in 1 .. n
      BY <1>1, <1>3
    <3>2. \/ Room(agenda[j].t)
          \/ \E k \in 1 .. j - 1 : Assembling(agenda[k], agenda[j].t)
      BY <1>1, <2>2, <3>1 DEF Orderly, ComputeReady, Falls, n
    <3>3. CASE Room(agenda[j].t)
      BY <2>2, <3>1, <3>3 DEF Falls, Room
    <3>4. ASSUME NEW k \in 1 .. j - 1, Assembling(agenda[k], agenda[j].t)
          PROVE  \/ Room(agenda[i].t)'
                 \/ \E l \in 1 .. i - 1 : Assembling(agenda'[l], agenda[j].t)
      <4>1. CASE k = 1
        <5>1. /\ agenda[j].t = self
              /\ Head(agenda).call \in {"assemble", "callAssemble"}
          BY <1>1, <1>2, <3>4, <4>1 DEF Assembling, Has
        <5>2. needsCompute[self]
          BY <2>2, <3>1, <5>1 DEF Falls
        <5>3. \/ fused[self] \/ (allocated'[self] /\ ~needsAssemble'[self])
              \/ \E l \in 1 .. m : Has(front[l], "callAssemble", self)
          BY <2>2, <5>1, <5>2 DEF Does, m
        <5>4. \A l \in 1 .. m : l \in 1 .. i - 1 /\ agenda'[l] = front[l]
          BY <1>1, <2>2
        <5>5. QED
          BY <2>2, <5>1, <5>3, <5>4 DEF Falls, Assembling, Room
      <4>2. CASE k # 1
        <5>1. k \in 2 .. n /\ m + k - 1 \in 1 .. i - 1
          BY <1>len, <2>2, <4>2, Shifted
        <5>2. agenda'[m + k - 1] = agenda[k]
          BY <1>below, <5>1
        <5>3. QED
          BY <3>4, <5>1, <5>2
      <4>3. QED
        BY <4>1, <4>2
    <3>5. QED
      BY <3>2, <3>3, <3>4
  <2>3. ASSUME NEW j \in 2 .. n, agenda'[i] = agenda[j]
        PROVE  Compiled(i)'
    <3>1. Compiled(j)
      BY <1>1, <2>3 DEF Orderly, ComputeReady, n
    <3>2. QED
      BY <1>8, <2>3, <3>1 DEF Compiled
  <2>4. QED
    BY <1>1, <2>1, <2>2, <2>3
<1>11. CallAssembleReady'
  <2> SUFFICES ASSUME NEW i \in 1 .. Len(agenda'),
                      agenda'[i].call = "callAssemble", Clean(agenda'[i].t)
               PROVE  ~needsCompile'[agenda'[i].t] /\ needsCompute'[agenda'[i].t]
    BY DEF CallAssembleReady, Falls, Clean
  <2>1. CASE i \in 1 .. m /\ agenda'[i] = front[i]
    BY <2>1 DEF Makes, m, Stages
  <2>2. ASSUME NEW j \in 2 .. n, agenda'[i] = agenda[j]
        PROVE  ~needsCompile'[agenda[j].t] /\ needsCompute'[agenda[j].t]
    <3>1. agenda[j].t \in Tensors /\ j \in 1 .. n /\ 1 < j
      BY <1>1, <1>3
    <3>2. ~needsCompile[agenda[j].t] /\ needsCompute[agenda[j].t]
      BY <2>2, <3>1 DEF Orderly, CallAssembleReady, n
    <3>3. Head(agenda).call = "compute" => agenda[j].t # self
      <4>1. SUFFICES ASSUME agenda[1].call = "compute"
                     PROVE  token[self] < token[agenda[j].t]
        BY <1>1, <1>2, <1>4, <3>1
      <4>2. Works(agenda[1])
        BY <4>1 DEF Works, Stages
      <4>3. QED
        BY <1>1, <1>2, <2>2, <3>1, <4>2 DEF Orderly, Descending, n
    <3>4. QED
      BY <3>1, <3>2, <3>3 DEF Falls
  <2>3. QED
    BY <1>1, <2>1, <2>2
<1>12. CallComputeReady'
  <2> SUFFICES ASSUME NEW i \in 1 .. Len(agenda'),
                      agenda'[i].call = "callCompute", Clean(agenda'[i].t)
               PROVE  RunReady(agenda[i].t)'
    BY DEF CallComputeReady, Falls, Clean
  <2>1. CASE i \in 1 .. m /\ agenda'[i] = front[i]
    <3>1. RunReady(front[i].t)'
      BY <2>1 DEF Makes, m, Stages
    <3>2. QED
      BY <2>1, <3>1 DEF RunReady, Room
  <2>2. ASSUME NEW j \in 2 .. n, agenda'[i] = agenda[j]
        PROVE  RunReady(agenda[i].t)'
    <3>1. agenda[j].t \in Tensors /\ RunReady(agenda[j].t)
      <4>1. j \in 1 .. n
        BY <1>below
      <4>2. CallComputeReady
        BY DEF Orderly
      <4>3. QED
        BY <1>3, <2>2, <4>1, <4>2 DEF CallComputeReady, n
    <3>2. QED
      BY <2>2, <3>1 DEF RunReady, Room, Falls
  <2>3. QED
    BY <1>1, <2>1, <2>2
<1>13. Descending'
  <2> SUFFICES ASSUME NEW i \in 1 .. Len(agenda'), NEW j \in 1 .. Len(agenda'),
                      i < j,
                      agenda'[j].call \in {"callAssemble", "callCompute"},
                      Clean(agenda'[j].t), Works(agenda[i])'
               PROVE  /\ token[agenda'[i].t] < token[agenda'[j].t]
                      /\ Clean(agenda'[i].t)
    BY DEF Descending, Falls, Clean
  <2>1. CASE j \in 1 .. m /\ agenda'[j] = front[j]
    <3>1. /\ front[j].t = self
          /\ i \in 1 .. m /\ agenda'[i] = front[i]
          /\ front[i].call \notin Stages
      <4>1. i \in 1 .. j - 1 /\ i \in 1 .. m
        BY <1>1, <2>1
      <4>2. QED
        BY <1>1, <2>1, <4>1 DEF Makes, m, Stages
    <3>2. front[i].call = "syncValues" /\ needsCompute'[front[i].t]
      BY <3>1 DEF Works
    <3>3. QED
      BY <2>1, <3>1, <3>2 DEF Makes, m
  <2>2. ASSUME NEW b \in 2 .. n, j = m + b - 1, agenda'[j] = agenda[b]
        PROVE  /\ token[agenda'[i].t] < token[agenda[b].t]
               /\ Clean(agenda'[i].t)
    <3>0. b \in 1 .. n /\ 1 < b /\ agenda[b].t \in Tensors
      <4>1. b \in 1 .. n /\ 1 < b
        BY <1>1
      <4>2. QED
        BY <1>3, <4>1
    <3>1. CASE i \in 1 .. m /\ agenda'[i] = front[i]
      <4>1. Works(agenda[1])
        <5>1. front # <<>>
          BY <1>1, <1>5, <3>1
        <5>2. QED
          BY <1>1, <5>1 DEF Does
      <4>2. token[self] < token[agenda[b].t] /\ Clean(self)
        BY <1>1, <1>2, <2>2, <3>0, <4>1 DEF Orderly, Descending, n
      <4>3. \/ front[i].t = self
            \/ token[front[i].t] < token[self] /\ Clean(front[i].t)
        <5>1. \/ front[i].call \in Stages
              \/ front[i].call = "syncValues" /\ needsCompute'[front[i].t]
          BY <3>1 DEF Works
        <5>2. QED
          BY <3>1, <4>2, <5>1 DEF Makes, m
      <4>4. /\ token[front[i].t] \in Int /\ token[self] \in Int
            /\ token[agenda[b].t] \in Int
        BY <1>2, <1>3, <1>4, <3>0, <3>1
      <4>5. QED
        BY <3>1, <4>2, <4>3, <4>4
    <3>2. ASSUME NEW a \in 2 .. n, i = m + a - 1, agenda'[i] = agenda[a]
          PROVE  /\ token[agenda'[i].t] < token[agenda[b].t]
                 /\ Clean(agenda'[i].t)
      <4>1. a < b /\ a \in 1 .. n
        BY <1>1, <2>2, <3>2
      <4>2. Works(agenda[a])
        <5>1. agenda[a].t \in Tensors
          BY <1>3, <4>1
        <5>2. needsCompute'[agenda[a].t] => needsCompute[agenda[a].t]
          BY <5>1 DEF Falls
        <5>3. QED
          BY <3>2, <5>2 DEF Works
      <4>3. QED
        BY <2>2, <3>0, <3>2, <4>1, <4>2 DEF Orderly, Descending, n
    <3>3. QED
      BY <1>1, <3>1, <3>2
  <2>3. QED
    BY <1>1, <2>1, <2>2
\* What is done for u further up is still done, unless the call on top did it.
<1>14. ASSUME NEW u \in Tensors, NEW l \in 0 .. n
       PROVE  /\ needsPack'[u] /\ (\E i \in 1 .. l : Packs(agenda[i], u))
                    => \E i \in 1 .. m + l - 1 : Packs(agenda'[i], u)
              /\ needsCompute'[u] /\ (\E i \in 1 .. l : Will(u, agenda[i]))
                    => \E i \in 1 .. m + l - 1 : Will(u, agenda'[i])
  <2>1. ASSUME NEW i \in 2 .. l
        PROVE  /\ m + i - 1 \in 1 .. m + l - 1
               /\ agenda'[m + i - 1] = agenda[i]
    BY <1>1
  <2>2. ASSUME NEW i \in 1 .. l
        PROVE  i = 1 \/ i \in 2 .. l
    BY <1>1
  <2>3. Packs(agenda[1], u) => ~needsPack'[u]
    BY <1>1, <1>2 DEF Packs, Has, Does
  <2>4. ASSUME 1 \in 1 .. l, Will(u, agenda[1]), needsCompute'[u]
        PROVE  \E i \in 1 .. m + l - 1 : Will(u, agenda'[i])
    <3>1. u = self /\ Will(self, Head(agenda))
      BY <1>1, <1>2, <2>4 DEF Will
    <3>2. PICK i \in 1 .. m : Will(self, front[i])
      BY <2>4, <3>1 DEF Does, m
    <3>3. i \in 1 .. m + l - 1 /\ agenda'[i] = front[i]
      BY <1>1, <2>4
    <3>4. QED
      BY <3>1, <3>2, <3>3
  <2>5. QED
    BY <2>1, <2>2, <2>3, <2>4
<1>15. Served'
  <2> SUFFICES ASSUME NEW j \in 1 .. Len(agenda'),
                      agenda'[j].call = "callCompute",
                      NEW u \in assignment[agenda'[j].t].operands
               PROVE  /\ needsPack'[u] => \E i \in 1 .. j - 1 : Packs(agenda'[i], u)
                      /\ needsCompute'[u] => \E i \in 1 .. j - 1 : Will(u, agenda'[i])
    BY DEF Served, Falls, Packs, Has, Will
  <2>1. CASE j \in 1 .. m /\ agenda'[j] = front[j]
    <3>1. front[j].t = self
      BY <2>1 DEF Makes, m, Stages
    <3>2. PICK k \in 1 .. j - 1 : Packs(front[k], u)
      BY <2>1, <3>1 DEF Makes, m
    <3>3. agenda'[k] = front[k]
      <4>1. k \in 1 .. m
        BY <1>len, <2>1
      <4>2. QED
        BY <1>above, <4>1
    <3>4. Will(u, front[k])
      BY <3>2 DEF Packs, Has, Will
    <3>5. QED
      BY <3>2, <3>3, <3>4
  <2>2. ASSUME NEW b \in 2 .. n, j = m + b - 1, agenda'[j] = agenda[b]
        PROVE  /\ needsPack'[u] => \E i \in 1 .. j - 1 : Packs(agenda'[i], u)
               /\ needsCompute'[u] => \E i \in 1 .. j - 1 : Will(u, agenda'[i])
    <3>1. b \in 1 .. n /\ agenda[b].t \in Tensors
      BY <1>1, <1>3
    <3>2. u \in Tensors
      BY <2>2, <3>1, OperandsType
    <3>3. /\ needsPack[u] => \E i \in 1 .. b - 1 : Packs(agenda[i], u)
          /\ needsCompute[u] => \E i \in 1 .. b - 1 : Will(u, agenda[i])
      BY <2>2, <3>1 DEF Orderly, Served, n
    <3>4. b - 1 \in 0 .. n /\ m + (b - 1) - 1 = j - 1
      BY <1>1, <2>2
    <3>5. /\ needsPack'[u] => \E i \in 1 .. m + (b - 1) - 1 : Packs(agenda'[i], u)
          /\ needsCompute'[u] => \E i \in 1 .. m + (b - 1) - 1 : Will(u, agenda'[i])
      BY <1>14, <3>2, <3>3, <3>4 DEF Falls
    <3>6. QED
      BY <3>4, <3>5
  <2>3. QED
    BY <1>1, <2>1, <2>2
<1>16. ReadServed'
  <2> SUFFICES ASSUME client.op \in Reads
               PROVE  /\ needsPack'[client.t] =>
                            \E i \in 1 .. Len(agenda') : Packs(agenda'[i], client.t)
                      /\ needsCompute'[client.t] =>
                            \E i \in 1 .. Len(agenda') : Will(client.t, agenda'[i])
    BY DEF ReadServed, Falls, Packs, Has, Will
  <2>1. client.t \in Tensors
    BY RequestType DEF Reads, Methods
  <2>2. /\ needsPack[client.t] => \E i \in 1 .. n : Packs(agenda[i], client.t)
        /\ needsCompute[client.t] => \E i \in 1 .. n : Will(client.t, agenda[i])
    BY DEF Orderly, ReadServed, n
  <2>3. n \in 0 .. n /\ Len(agenda') = m + n - 1
    BY <1>1
  <2>4. QED
    BY <1>14, <2>1, <2>2, <2>3 DEF Falls
<1>17. QED
  BY <1>6, <1>7, <1>9, <1>10, <1>11, <1>12, <1>13, <1>15, <1>16 DEF Orderly
(***************************************************************************)
(* The calls assemble() and compute() make.                                *)
(***************************************************************************)
\* Every operand is visited, whatever the order.
LEMMA OrdersCover ==
    ASSUME NEW S \in SUBSET Tensors, NEW ops \in Orders(S)
    PROVE  /\ ops \in Seq(Tensors)
           /\ \A i \in 1 .. Len(ops) : ops[i] \in S
           /\ \A u \in S : \E i \in 1 .. Len(ops) : ops[i] = u
<1> DEFINE n == Cardinality(S)
<1>1. IsFiniteSet(S) /\ n \in Nat
  <2>1. IsFiniteSet(S)
    BY FS_Subset, TensorsAssumption
  <2>2. QED
    BY <2>1, FS_CardinalityType
<1>2. /\ ops \in [1 .. n -> S]
      /\ \A i, j \in 1 .. n : i # j => ops[i] # ops[j]
  BY DEF Orders, SetToSeqs
<1> HIDE DEF n
<1>3. ops \in Seq(Tensors)
  BY OrdersType
<1>4. Len(ops) = n
  <2>1. DOMAIN ops = 1 .. Len(ops) /\ DOMAIN ops = 1 .. n /\ Len(ops) \in Nat
    BY <1>2, <1>3, LenProperties
  <2>2. \A k, l \in Nat : 1 .. k = 1 .. l => k = l
    <3> SUFFICES ASSUME NEW k \in Nat, NEW l \in Nat, 1 .. k = 1 .. l
                 PROVE  k = l
      OBVIOUS
    <3>1. (k \in 1 .. k <=> k \in 1 .. l) /\ (l \in 1 .. l <=> l \in 1 .. k)
      OBVIOUS
    <3>2. QED
      BY <3>1
  <2>3. QED
    BY <1>1, <2>1, <2>2
<1>5. ops \in Injection(1 .. n, S)
  BY <1>2 DEF Injection, IsInjective
<1>6. Cardinality(1 .. n) = n
  BY <1>1, FS_Interval
<1>7. ops \in Surjection(1 .. n, S)
  BY <1>1, <1>5, <1>6, FS_Injection DEF n
<1>8. \A u \in S : \E i \in 1 .. n : ops[i] = u
  BY <1>7 DEF Surjection
<1>9. QED
  BY <1>2, <1>3, <1>4, <1>8

\* assemble() synchronizes the operands and then assembles.
LEMMA AssembleFront ==
    ASSUME NEW t \in Tensors, NEW S \in SUBSET Tensors, NEW ops \in Orders(S),
           NEW front, front = SyncAll(ops) \o <<Do("callAssemble", t)>>
    PROVE  /\ front \in Seq(Frames) /\ front # <<>>
           /\ front[Len(front)] = Do("callAssemble", t)
           /\ Len(front) \in 1 .. Len(front)
           /\ \A i \in 1 .. Len(front) :
                 \/ i = Len(front) /\ front[i] = Do("callAssemble", t)
                 \/ i < Len(front) /\ \E u \in S : front[i] = Do("syncValues", u)
<1>1. /\ ops \in Seq(Tensors)
      /\ \A i \in 1 .. Len(ops) : ops[i] \in S
  BY OrdersCover
<1>2. Len(ops) \in Nat
  BY <1>1, LenProperties
<1>3. front \in Seq(Frames)
  BY <1>1, AssembleCalls
<1>4. /\ Len(front) = Len(ops) + 1
      /\ \A i \in 1 .. Len(ops) : front[i] = Do("syncValues", ops[i])
      /\ front[Len(ops) + 1] = Do("callAssemble", t)
  BY <1>1, SyncAllThen DEF Calls
<1>5. \A i \in 1 .. Len(front) : i = Len(front) \/ i \in 1 .. Len(ops)
  BY <1>2, <1>4
<1>6. front # <<>>
  BY <1>2, <1>4, EmptySeq
<1>7. ASSUME NEW i \in 1 .. Len(ops)
      PROVE  i < Len(front) /\ \E u \in S : front[i] = Do("syncValues", u)
  BY <1>1, <1>2, <1>4
<1>8. Len(front) \in 1 .. Len(front)
  BY <1>2, <1>4
<1>9. QED
  BY <1>3, <1>4, <1>5, <1>6, <1>7, <1>8

\* The calls that compute() of t makes for the operands S: it synchronizes
\* every operand, leaves its dependents and then runs the kernel.
Leaves(front, t, S) ==
    /\ front \in Seq(Frames) /\ front # <<>>
    /\ \A i \in 1 .. Len(front) :
          \/ i = Len(front) /\ front[i] = Do("callCompute", t)
          \/ i < Len(front) /\ \E u \in S : front[i] = Do("syncValues", u)
          \/ i < Len(front) /\ front[i].call = "removeDependent"
    /\ \A u \in S : \E i \in 1 .. Len(front) - 1 :
          front[i] = Do("syncValues", u)

\* compute() puts these calls on the stack, in whatever order the operands are.
LEMMA ComputeFront ==
    ASSUME NEW t \in Tensors, NEW S \in SUBSET Tensors, NEW ops \in Orders(S),
           NEW front,
           front = SyncAndLeave(t, ops) \o <<Do("callCompute", t)>>
    PROVE  Leaves(front, t, S)
<1> DEFINE last == <<Do("callCompute", t)>>
           first == SyncAndLeave(t, ops)
           l == Len(ops)
           n == 2 * l
<1>1. /\ ops \in Seq(Tensors)
      /\ \A i \in 1 .. l : ops[i] \in S
      /\ \A u \in S : \E i \in 1 .. l : ops[i] = u
  BY OrdersCover
<1>2. l \in Nat
  BY <1>1, LenProperties
<1>3. first \in Seq(Frames)
  BY <1>1, SyncAndLeaveType
<1>4. /\ Len(first) = n
      /\ \A i \in 1 .. n : first[i] =
            IF i % 2 = 1 THEN Do("syncValues", ops[(i + 1) \div 2])
            ELSE [call |-> "removeDependent", t |-> ops[i \div 2], by |-> t]
  BY <1>2 DEF SyncAndLeave
<1>5. last \in Seq(Frames) /\ Len(last) = 1 /\ last[1] = Do("callCompute", t)
  BY DoType DEF Calls
<1> HIDE DEF last, first, n, l
<1>6. /\ front \in Seq(Frames)
      /\ Len(front) = n + 1
      /\ \A i \in 1 .. n + 1 : front[i] =
            IF i <= n THEN first[i] ELSE last[i - n]
  <2>1. /\ front \in Seq(Frames)
        /\ Len(front) = Len(first) + Len(last)
        /\ \A i \in 1 .. Len(first) + Len(last) : front[i] =
              IF i <= Len(first) THEN first[i] ELSE last[i - Len(first)]
    BY <1>3, <1>5, ConcatProperties DEF last, first
  <2>2. QED
    BY <1>4, <1>5, <2>1
<1>7. n \in Nat
  BY <1>2 DEF n
<1>8. ASSUME NEW i \in 1 .. n
      PROVE  \/ \E u \in S : front[i] = Do("syncValues", u)
             \/ front[i].call = "removeDependent"
  <2>1. front[i] = first[i]
    BY <1>6, <1>7
  <2>2. CASE i % 2 = 1
    <3>1. (i + 1) \div 2 \in 1 .. l
      BY <1>2, <2>2 DEF n
    <3>2. QED
      BY <1>1, <1>4, <2>1, <2>2, <3>1
  <2>3. CASE i % 2 # 1
    <3>1. first[i] = IF i % 2 = 1 THEN Do("syncValues", ops[(i + 1) \div 2])
            ELSE [call |-> "removeDependent", t |-> ops[i \div 2], by |-> t]
      BY <1>4
    <3>2. first[i] = [call |-> "removeDependent", t |-> ops[i \div 2], by |-> t]
      BY <2>3, <3>1, Zenon
    <3>3. \A o : [call |-> "removeDependent", t |-> o, by |-> t].call
                     = "removeDependent"
      OBVIOUS
    <3>4. QED
      BY <2>1, <3>2, <3>3, Zenon
  <2>4. QED
    BY <2>2, <2>3
<1>9. ASSUME NEW u \in S
      PROVE  \E i \in 1 .. n : front[i] = Do("syncValues", u)
  <2>1. PICK i \in 1 .. l : ops[i] = u
    BY <1>1
  <2>2. /\ 2 * i - 1 \in 1 .. n /\ (2 * i - 1) % 2 = 1
        /\ ((2 * i - 1) + 1) \div 2 = i
    BY <1>2 DEF n
  <2>3. front[2 * i - 1] = first[2 * i - 1]
    BY <1>6, <1>7, <2>2
  <2>4. QED
    BY <1>4, <2>1, <2>2, <2>3
<1>10. front[n + 1] = Do("callCompute", t)
  BY <1>5, <1>6, <1>7
<1>11. \A i \in 1 .. n + 1 : i = n + 1 \/ i \in 1 .. n
  BY <1>7
<1>12. front # <<>>
  BY <1>6, <1>7, EmptySeq
<1>13. Len(front) = n + 1 /\ Len(front) - 1 = n /\ \A i \in 1 .. n : i < n + 1
  BY <1>6, <1>7
<1>14. \A i \in 1 .. Len(front) :
          \/ i = Len(front) /\ front[i] = Do("callCompute", t)
          \/ i < Len(front) /\ \E u \in S : front[i] = Do("syncValues", u)
          \/ i < Len(front) /\ front[i].call = "removeDependent"
  <2> SUFFICES ASSUME NEW i \in 1 .. n + 1
               PROVE  \/ i = n + 1 /\ front[i] = Do("callCompute", t)
                      \/ i < n + 1 /\ \E u \in S : front[i] = Do("syncValues", u)
                      \/ i < n + 1 /\ front[i].call = "removeDependent"
    BY <1>13
  <2>1. CASE i = n + 1
    BY <1>10, <2>1
  <2>2. CASE i \in 1 .. n
    BY <1>8, <1>13, <2>2
  <2>3. QED
    BY <1>11, <2>1, <2>2
<1>15. \A u \in S : \E i \in 1 .. Len(front) - 1 : front[i] = Do("syncValues", u)
  BY <1>9, <1>13
<1>16. QED
  BY <1>6, <1>12, <1>14, <1>15 DEF Leaves

(***************************************************************************)
(* The state of the tensors.                                               *)
(***************************************************************************)
\* A tensor that is to be computed has an assignment.
PendingDefined == \A t \in Tensors : needsCompute[t] => assignment[t].defined

\* A tensor that is to be compiled has an assignment.
CompileDefined == \A t \in Tensors : needsCompile[t] => assignment[t].defined

\* A clean tensor that was assembled has arrays.
AssembledAllocated ==
    \A t \in Tensors :
        Clean(t) /\ assignment[t].defined /\ ~needsAssemble[t] => allocated[t]

\* A clean tensor can be compiled, and waits for clean tensors only.
CleanCompilable ==
    \A t \in Tensors : Clean(t) /\ assignment[t].defined
        => assignment[t].operands \notin Failing
CleanOperands == \A t, u \in Tensors : Clean(t) /\ Waits(t, u) => Clean(u)

Executes(front) ==
    /\ agenda' = front \o rest
    /\ Falls /\ Does(front) /\ Makes(front)

\* A throw that interrupts no computation of a clean tensor, and changes
\* nothing but the flag and the module of an assignment that cannot be
\* compiled.
Unwinds ==
    /\ Throw /\ NoRuns
    /\ UNCHANGED <<neverPacked, needsPack, needsAssemble, needsCompute, fused,
                   data, assignment, dependents, ghosts>>
    /\ \/ UNCHANGED <<needsCompile, kernel>>
       \/ /\ assignment[self].operands \in Failing
          /\ needsCompile' = [needsCompile EXCEPT ![self] = FALSE]

\* No clean tensor waits for the stage of another one.
LEMMA SpoiledInterrupts ==
    ASSUME TypeOK, Orderly, agenda # <<>>, ~Clean(self), Works(agenda[1])
    PROVE  NoRuns
<1>1. /\ self \in Tensors /\ agenda[1].t = self
      /\ 1 \in 1 .. Len(agenda) /\ Len(agenda) \in Nat
  <2>1. Len(agenda) \in Nat \ {0} /\ Head(agenda) = agenda[1]
    BY HeadTailProperties, EmptySeq, LenProperties DEF TypeOK
  <2>2. QED
    BY <2>1, StackType DEF self
<1> SUFFICES ASSUME NEW j \in 1 .. Len(agenda),
                    agenda[j].call = "callCompute", Clean(agenda[j].t)
             PROVE  FALSE
  BY DEF NoRuns
<1>2. 1 < j
  BY <1>1
<1>3. QED
  BY <1>1, <1>2 DEF Orderly, Descending

\* Nothing of a clean tensor is called in a module that was not compiled.
LEMMA KernelThere ==
    ASSUME TypeOK, Orderly, CompilableIsCurrent, PendingDefined,
           CleanCompilable, agenda # <<>>, Clean(self)
    PROVE  ~CallMissing
<1>1. /\ self \in Tensors /\ Head(agenda) = agenda[1] /\ agenda[1].t = self
      /\ 1 \in 1 .. Len(agenda)
  <2>1. Len(agenda) \in Nat \ {0} /\ Head(agenda) = agenda[1]
    BY HeadTailProperties, EmptySeq, LenProperties DEF TypeOK
  <2>2. QED
    BY <2>1, StackType DEF self
<1> SUFFICES ASSUME Executing("callAssemble") \/ Executing("callCompute")
             PROVE  kernel[self] # NoKernel
  BY DEF CallMissing
<1>2. ~needsCompile[self] /\ assignment[self].defined
  <2>1. CASE Executing("callAssemble")
    BY <1>1, <2>1 DEF Executing, Orderly, CallAssembleReady, PendingDefined
  <2>2. CASE Executing("callCompute")
    BY <1>1, <2>2 DEF Executing, Orderly, CallComputeReady, RunReady
  <2>3. QED
    BY <2>1, <2>2
<1>3. kernel[self].of = assignment[self]
  BY <1>1, <1>2 DEF CompilableIsCurrent, CleanCompilable
<1>4. QED
  BY <1>2, <1>3 DEF NoKernel, Undefined

\* The call on top of the stack throws without harm to the clean tensors;
\* otherwise it returns or makes calls that keep the stack in order.
LEMMA StackExecutes ==
    ASSUME Bookkeeping, Orderly, PendingAcyclic, CompilableIsCurrent,
           PendingDefined, CompileDefined, AssembledAllocated,
           CleanCompilable, CleanOperands, Internal, agenda # <<>>
    PROVE  Unwinds \/ \E front \in Seq(Frames) : Executes(front)
<1>1. TypeInvariant /\ TypeOK /\ PackedOrPending
  BY DEF Bookkeeping, TypeInvariant
<1>2. /\ self \in Tensors /\ rest \in Seq(Frames)
      /\ Head(agenda) = agenda[1] /\ agenda[1].t = self
      /\ 1 \in 1 .. Len(agenda) /\ 1 - 1 = 0
  <2>1. Len(agenda) \in Nat \ {0} /\ Head(agenda) = agenda[1]
    BY <1>1, HeadTailProperties, EmptySeq, LenProperties DEF TypeOK
  <2>2. QED
    BY <1>1, <2>1, StackType DEF self
<1>3. \A op : ~Returning(op)
  BY DEF Returning
<1>4. assignment[self].operands \in SUBSET Tensors
  BY <1>1, <1>2, OperandsType
<1>5. Executing("assemble") \/ Executing("compute") =>
         /\ needsCompile[self] => NoRuns
         /\ Clean(self) /\ Executing("assemble") /\ needsAssemble[self]
               => needsCompute[self]
         /\ Clean(self) /\ Executing("compute") /\ needsCompute[self]
               => Room(self)
  <2>1. Executing("assemble") \/ Executing("compute") => Compiled(1)
    BY <1>2 DEF Orderly, AssembleFirst, ComputeReady, Executing
  <2>2. Compiled(1) /\ (Executing("assemble") \/ Executing("compute"))
           => (needsCompile[self] => NoRuns)
    BY <1>2 DEF Compiled, Has, Executing
  <2>3. Clean(self) /\ Executing("assemble") /\ needsAssemble[self]
           => needsCompute[self]
    BY <1>2 DEF Orderly, AssembleFirst, Executing
  <2>4. Clean(self) /\ Executing("compute") /\ needsCompute[self]
           => Room(self)
    <3>1. \A k \in 1 .. 1 - 1 : FALSE
      OBVIOUS
    <3>2. QED
      BY <1>2, <3>1 DEF Orderly, ComputeReady, Executing
  <2>5. QED
    BY <2>1, <2>2, <2>3, <2>4
\* A call that returns.
<1>6. ASSUME agenda' = rest, Falls, Does(<<>>)
      PROVE  \E front \in Seq(Frames) : Executes(front)
  <2>1. <<>> \in Seq(Frames) /\ <<>> \o rest = rest
        /\ \A i \in 1 .. Len(<<>>) : FALSE
    BY <1>2, EmptySeq, ConcatEmptySeq
  <2>2. Makes(<<>>)
    BY <2>1 DEF Makes
  <2>3. QED
    BY <1>6, <2>1, <2>2 DEF Executes
<1>7. \A i \in 1 .. Len(<<>>) : FALSE
  BY EmptySeq
<1>8. CASE SyncPack
  <2>1. /\ needsPack' = [needsPack EXCEPT ![self] = FALSE]
        /\ allocated' = [allocated EXCEPT ![self] = TRUE]
        /\ UNCHANGED <<needsCompile, needsAssemble, needsCompute, fused,
                       assignment, token, client, spoiled>>
        /\ ~needsCompute[self]
        /\ Head(agenda).call = "syncValues" /\ agenda' = rest
    BY <1>1, <1>2, <1>8
       DEF SyncPack, Pack, code, ghosts, PackedOrPending, Executing
  <2>2. Falls
    BY <1>1, <1>2, <2>1 DEF Falls, TypeOK
  <2>3. Does(<<>>)
    BY <1>1, <1>2, <2>1 DEF Does, TypeOK, Will, Stages
  <2>4. QED
    BY <1>6, <2>1, <2>2, <2>3
<1>9. CASE SyncNothing \/ AssembleAlready \/ ComputeAlready \/ CompileAlready
  <2>1. /\ UNCHANGED <<needsPack, needsCompile, needsAssemble, needsCompute,
                       fused, allocated, assignment, token, client, spoiled>>
        /\ agenda' = rest
        /\ \/ Head(agenda).call = "syncValues" /\ ~needsPack[self]
              /\ ~needsCompute[self]
           \/ Head(agenda).call = "assemble" /\ ~needsAssemble[self]
           \/ Head(agenda).call = "compute" /\ ~needsCompute[self]
           \/ Head(agenda).call = "compile" /\ ~needsCompile[self]
    BY <1>9 DEF SyncNothing, AssembleAlready, ComputeAlready, CompileAlready,
       flags, data, code, ghosts, Executing
  <2>2. Falls
    BY <2>1 DEF Falls
  <2>3. Clean(self) /\ needsCompute[self] /\ ~needsAssemble[self]
           => allocated[self]
    BY <1>2 DEF PendingDefined, AssembledAllocated
  <2>4. Does(<<>>)
    BY <2>1, <2>3 DEF Does, Will
  <2>5. QED
    BY <1>6, <2>1, <2>2, <2>4
<1>10. CASE CompileKernel
  <2>1. /\ needsCompile' = [needsCompile EXCEPT ![self] = FALSE]
        /\ UNCHANGED <<needsPack, needsAssemble, needsCompute,
                       fused, allocated, assignment, token, client, spoiled>>
        /\ agenda' = rest /\ Head(agenda).call = "compile"
    BY <1>10 DEF CompileKernel, CompileFlag, data, ghosts, Executing
  <2>2. Falls
    BY <1>1, <1>2, <2>1 DEF Falls, TypeOK
  <2>3. Does(<<>>)
    BY <1>1, <1>2, <2>1 DEF Does, TypeOK, Will
  <2>4. QED
    BY <1>6, <2>1, <2>2, <2>3
<1>11. CASE CallAssemble
  <2>1. /\ UNCHANGED <<needsPack, needsCompile, needsCompute,
                       fused, assignment, token, client, spoiled>>
        /\ agenda' = rest /\ Head(agenda).call = "callAssemble"
        /\ fused[self] => UNCHANGED <<needsAssemble, allocated>>
        /\ ~fused[self] =>
              /\ needsAssemble' = [needsAssemble EXCEPT ![self] = FALSE]
              /\ allocated' = [allocated EXCEPT ![self] = TRUE]
    BY <1>11 DEF CallAssemble, code, ghosts, Executing
  <2>2. Falls
    BY <1>1, <1>2, <2>1 DEF Falls, TypeOK
  <2>3. Does(<<>>)
    BY <1>1, <1>2, <2>1 DEF Does, TypeOK, Will
  <2>4. QED
    BY <1>6, <2>1, <2>2, <2>3
<1>12. CASE CallCompute
  <2>1. /\ UNCHANGED <<needsPack, needsCompile, needsCompute,
                       fused, assignment, token, client, spoiled>>
        /\ agenda' = rest /\ Head(agenda).call = "callCompute"
        /\ ~fused[self] => UNCHANGED <<needsAssemble, allocated>>
        /\ fused[self] =>
              /\ needsAssemble' = [needsAssemble EXCEPT ![self] = FALSE]
              /\ allocated' = [allocated EXCEPT ![self] =
                                  @ \/ kernel[self].fused]
    BY <1>12 DEF CallCompute, code, ghosts, Executing
  <2>2. Falls
    BY <1>1, <1>2, <2>1 DEF Falls, TypeOK
  <2>3. Does(<<>>)
    BY <1>1, <1>2, <2>1 DEF Does, TypeOK, Will
  <2>4. QED
    BY <1>6, <2>1, <2>2, <2>3
<1>13. CASE RemoveDependent \/ ClearDependents
  <2>1. /\ UNCHANGED <<needsPack, needsCompile, needsAssemble, needsCompute,
                       fused, allocated, assignment, token, client, spoiled>>
        /\ agenda' = rest
        /\ Head(agenda).call \in {"removeDependent", "clearDependents"}
    BY <1>13 DEF RemoveDependent, ClearDependents, flags, data, ghosts,
       Executing
  <2>2. Falls
    BY <2>1 DEF Falls
  <2>3. Does(<<>>)
    BY <2>1 DEF Does, Will
  <2>4. QED
    BY <1>6, <2>1, <2>2, <2>3

<1>14. CASE CompileUndefined \/ CompileRejects \/ RunUncompiled
  <2>1. /\ Throw /\ UNCHANGED <<needsCompile, kernel>>
        /\ UNCHANGED <<neverPacked, needsPack, needsAssemble, needsCompute,
                       fused, data, assignment, dependents, ghosts>>
    BY <1>14 DEF CompileUndefined, CompileRejects, RunUncompiled, flags, code
  <2>2. CASE CompileUndefined
    BY <1>2, <2>1, <2>2
       DEF CompileUndefined, Executing, Orderly, CompileFirst, Unwinds
  <2>3. CASE RunUncompiled
    BY <1>5, <2>1, <2>3 DEF RunUncompiled, Unwinds
  <2>4. CASE CompileRejects
    <3>1. Works(agenda[1]) /\ assignment[self].defined
      BY <1>2, <2>4 DEF CompileRejects, Executing, Works, Stages
    <3>2. ~Clean(self)
      BY <1>2, <2>4, <3>1 DEF CompileRejects, CleanCompilable, Failing
    <3>3. NoRuns
      BY <1>1, <3>1, <3>2, SpoiledInterrupts
    <3>4. QED
      BY <2>1, <3>3 DEF Unwinds
  <2>5. QED
    BY <1>14, <2>2, <2>3, <2>4
<1>15. CASE CompileThrows
  <2>1. Works(agenda[1]) /\ assignment[self].defined
    BY <1>2, <1>15
       DEF CompileThrows, Executing, Works, Stages, CompileDefined
  <2>2. ~Clean(self)
    BY <1>2, <1>15, <2>1 DEF CompileThrows, CleanCompilable, Failing
  <2>3. NoRuns
    BY <1>1, <2>1, <2>2, SpoiledInterrupts
  <2>4. QED
    BY <1>15, <2>3 DEF CompileThrows, CompileFlag, Unwinds, Failing
<1>16. CASE CallMissing
  <2>1. Works(agenda[1])
    BY <1>2, <1>16 DEF CallMissing, Executing, Works, Stages
  <2>2. ~Clean(self)
    BY <1>1, <1>16, KernelThere
  <2>3. NoRuns
    BY <1>1, <2>1, <2>2, SpoiledInterrupts
  <2>4. QED
    BY <1>16, <2>3 DEF CallMissing, Unwinds, flags, code
<1>17. CASE SyncCompute
  <2> DEFINE front == <<Do("compile", self), Do("assemble", self),
                        Do("compute", self)>>
  <2>1. /\ UNCHANGED <<needsPack, needsCompile, needsAssemble, needsCompute,
                       fused, allocated, assignment, token, client, spoiled>>
        /\ Head(agenda).call = "syncValues"
        /\ ~needsPack[self] /\ needsCompute[self]
        /\ agenda' = front \o rest
    BY <1>17 DEF SyncCompute, flags, data, code, ghosts, Executing
  <2>2. /\ front \in Seq(Frames) /\ Len(front) = 3
        /\ front[1] = Do("compile", self) /\ front[2] = Do("assemble", self)
        /\ front[3] = Do("compute", self)
    <3>1. {"compile", "assemble", "compute"} \subseteq Calls
      BY DEF Calls
    <3>2. /\ Do("compile", self) \in Frames /\ Do("assemble", self) \in Frames
          /\ Do("compute", self) \in Frames
      BY <1>2, <3>1, DoType
    <3>3. QED
      BY <3>2
  <2> HIDE DEF front
  <2>3. Falls
    BY <2>1 DEF Falls
  <2>4. /\ \A i \in 1 .. Len(front) : i = 1 \/ i = 2 \/ i = 3
        /\ 3 \in 1 .. Len(front)
    BY <2>2
  <2>5. Does(front)
    <3>1. Will(self, front[3])
      BY <2>2 DEF Will, Do
    <3>2. QED
      BY <2>1, <2>4, <3>1 DEF Does, Works, self
  <2>6. Makes(front)
    <3> SUFFICES ASSUME NEW i \in 1 .. Len(front)
                 PROVE  LET call == front[i].call
                            t    == front[i].t
                        IN  /\ front[i].by = t /\ t = self
                            /\ call \in {"compile", "assemble", "compute"}
                            /\ call = "compile" => i = 1
                            /\ call = "assemble" =>
                                  i = 2 /\ Has(front[1], "compile", self)
                            /\ call = "compute" =>
                                  /\ i = 3 /\ Has(front[1], "compile", self)
                                  /\ Has(front[2], "assemble", self)
      BY <1>2, <2>1 DEF Makes, PendingDefined
    <3>1. Has(front[1], "compile", self) /\ Has(front[2], "assemble", self)
      BY <2>2 DEF Has, Do
    <3>2. CASE i = 1
      BY <2>2, <3>1, <3>2 DEF Do
    <3>3. CASE i = 2
      BY <2>2, <3>1, <3>3 DEF Do
    <3>4. CASE i = 3
      BY <2>2, <3>1, <3>4 DEF Do
    <3>5. QED
      BY <2>4, <3>2, <3>3, <3>4
  <2>7. QED
    BY <2>1, <2>2, <2>3, <2>5, <2>6 DEF Executes
\* An operand that is pending itself was assigned before, and is clean.
<1>18. ASSUME needsCompute[self], NEW u \in assignment[self].operands,
              needsCompute[u], Clean(self)
       PROVE  token[u] < token[self] /\ Clean(u)
  BY <1>2, <1>4, <1>18 DEF PendingAcyclic, CleanOperands, Waits
<1>19. CASE AssembleOperands
  <2>1. PICK ops \in Orders(assignment[self].operands) :
            agenda' = SyncAll(ops) \o <<Do("callAssemble", self)>> \o rest
    BY <1>19 DEF AssembleOperands
  <2>0. PICK S \in SUBSET Tensors : S = assignment[self].operands
    BY <1>4
  <2>00. PICK front : front = SyncAll(ops) \o <<Do("callAssemble", self)>>
    OBVIOUS
  <2>2. /\ UNCHANGED <<needsPack, needsCompile, needsAssemble, needsCompute,
                       fused, allocated, assignment, token, client, spoiled>>
        /\ Head(agenda).call = "assemble"
        /\ ~needsCompile[self] /\ (Clean(self) => needsCompute[self])
        /\ agenda' = front \o rest
    BY <1>5, <1>19, <2>1, <2>00
       DEF AssembleOperands, flags, data, code, ghosts, Executing
  <2>4. /\ front \in Seq(Frames) /\ front # <<>>
        /\ front[Len(front)] = Do("callAssemble", self)
        /\ Len(front) \in 1 .. Len(front)
        /\ \A i \in 1 .. Len(front) :
              \/ i = Len(front) /\ front[i] = Do("callAssemble", self)
              \/ i < Len(front) /\ \E u \in S : front[i] = Do("syncValues", u)
    <3>1. ops \in Orders(S)
      BY <2>1, <2>0
    <3>2. PICK t \in Tensors : t = self
      BY <1>2
    <3>3. front = SyncAll(ops) \o <<Do("callAssemble", t)>>
      BY <2>00, <3>2
    <3>4. S \in SUBSET Tensors /\ t \in Tensors
      BY <2>0, <3>2
    <3>5. /\ front \in Seq(Frames) /\ front # <<>>
          /\ front[Len(front)] = Do("callAssemble", t)
          /\ Len(front) \in 1 .. Len(front)
      BY <3>1, <3>3, <3>4, AssembleFront
    <3>6. \A i \in 1 .. Len(front) :
              \/ i = Len(front) /\ front[i] = Do("callAssemble", t)
              \/ i < Len(front) /\ \E u \in S : front[i] = Do("syncValues", u)
      BY <3>1, <3>3, <3>4, AssembleFront
    <3>7. QED
      BY <3>2, <3>5, <3>6
  <2>5. Falls
    BY <2>2 DEF Falls
  <2>6. Does(front)
    <3>1. Has(front[Len(front)], "callAssemble", self)
      BY <2>4 DEF Has, Do
    <3>2. QED
      BY <2>2, <2>4, <3>1 DEF Does, Works, Will, Stages
  <2>7. \A c, t : Do(c, t).call = c /\ Do(c, t).t = t /\ Do(c, t).by = t
    BY DEF Do
  <2>8. \A i \in 1 .. Len(front) : i < Len(front) =>
           \E u \in S : front[i].call = "syncValues" /\ front[i].t = u
                           /\ front[i].by = u
    BY <1>4, <2>4, <2>7
  <2>9. Makes(front)
    <3>1. ASSUME NEW i \in 1 .. Len(front), i < Len(front)
          PROVE  /\ front[i].call = "syncValues" /\ front[i].by = front[i].t
                 /\ needsCompute'[front[i].t] /\ Clean(self)
                       => token[front[i].t] < token[self] /\ Clean(front[i].t)
      BY <1>18, <2>0, <2>2, <2>8, <3>1
    <3>2. ASSUME NEW i \in 1 .. Len(front), i = Len(front)
          PROVE  /\ front[i].call = "callAssemble" /\ front[i].by = front[i].t
                 /\ front[i].t = self
                 /\ \A k \in 1 .. i - 1 : front[k].call \notin Stages
      <4>1. \A k \in 1 .. i - 1 : k \in 1 .. Len(front) /\ k < Len(front)
        BY <3>2
      <4>2. "syncValues" \notin Stages
        BY DEF Stages
      <4>3. QED
        BY <1>2, <2>4, <2>7, <3>1, <3>2, <4>1, <4>2
    <3>3. \A i \in 1 .. Len(front) : i = Len(front) \/ i < Len(front)
      BY <2>4
    <3>4. QED
      BY <2>0, <2>2, <3>1, <3>2, <3>3 DEF Makes, Stages
  <2>10. QED
    BY <2>2, <2>4, <2>5, <2>6, <2>9 DEF Executes
<1>20. CASE ComputeOperands
  <2>1. PICK ops \in Orders(assignment[self].operands) :
            agenda' = SyncAndLeave(self, ops)
                        \o <<Do("callCompute", self)>> \o rest
    BY <1>20 DEF ComputeOperands
  <2>0. PICK S \in SUBSET Tensors : S = assignment[self].operands
    BY <1>4
  <2>00. PICK front : front = SyncAndLeave(self, ops) \o <<Do("callCompute", self)>>
    OBVIOUS
  <2>2. /\ UNCHANGED <<needsPack, needsCompile, needsAssemble,
                       fused, allocated, assignment, token, client, spoiled>>
        /\ needsCompute' = [needsCompute EXCEPT ![self] = FALSE]
        /\ Head(agenda).call = "compute"
        /\ ~needsCompile[self] /\ needsCompute[self]
        /\ (Clean(self) => Room(self))
        /\ ~needsPack[self] /\ assignment[self].defined
        /\ agenda' = front \o rest
    BY <1>1, <1>2, <1>5, <1>20, <2>1, <2>00
       DEF ComputeOperands, data, code, ghosts, Executing, PackedOrPending,
           PendingDefined
  <2>4. /\ front \in Seq(Frames) /\ front # <<>>
        /\ \A i \in 1 .. Len(front) :
              \/ i = Len(front) /\ front[i] = Do("callCompute", self)
              \/ i < Len(front) /\ \E u \in S : front[i] = Do("syncValues", u)
              \/ i < Len(front) /\ front[i].call = "removeDependent"
        /\ \A u \in S : \E i \in 1 .. Len(front) - 1 :
              front[i] = Do("syncValues", u)
    <3>1. ops \in Orders(S)
      BY <2>1, <2>0
    <3>2. PICK t \in Tensors : t = self
      BY <1>2
    <3>3. front = SyncAndLeave(t, ops) \o <<Do("callCompute", t)>>
      BY <2>00, <3>2
    <3>4. S \in SUBSET Tensors /\ t \in Tensors
      BY <2>0, <3>2
    <3>5. Leaves(front, t, S)
      BY <3>1, <3>3, <3>4, ComputeFront
    <3>6. QED
      BY <3>2, <3>5 DEF Leaves
  <2>5. Falls
    BY <1>1, <1>2, <2>2 DEF Falls, TypeOK
  <2>6. ~needsCompute'[self]
    BY <1>1, <1>2, <2>2 DEF TypeOK
  <2>7. \A c, t : Do(c, t).call = c /\ Do(c, t).t = t /\ Do(c, t).by = t
    BY DEF Do
  <2>8. Len(front) \in Nat /\ Len(front) \in 1 .. Len(front)
    BY <2>4, LenProperties, EmptySeq
  <2>9. front[Len(front)] = Do("callCompute", self)
    BY <2>4, <2>8
  <2>10. Does(front)
    <3>1. Has(front[Len(front)], "callCompute", self)
      BY <1>2, <2>7, <2>9 DEF Has
    <3>2. QED
      BY <2>2, <2>6, <2>8, <3>1 DEF Does, Works, Will, Stages
  <2>11. Makes(front)
    <3>1. ASSUME NEW i \in 1 .. Len(front), i < Len(front)
          PROVE  /\ front[i].call \in {"syncValues", "removeDependent"}
                 /\ front[i].call = "syncValues" =>
                       /\ front[i].by = front[i].t
                       /\ needsCompute'[front[i].t] /\ Clean(self)
                             => /\ token[front[i].t] < token[self]
                                /\ Clean(front[i].t)
      <4>1. CASE front[i].call = "removeDependent"
        BY <4>1
      <4>2. CASE \E u \in S : front[i] = Do("syncValues", u)
        <5>1. PICK u \in S : front[i] = Do("syncValues", u)
          BY <4>2
        <5>2. u \in Tensors /\ front[i].call = "syncValues"
              /\ front[i].t = u /\ front[i].by = u
          BY <1>4, <2>7, <5>1
        <5>3. needsCompute'[u] => needsCompute[u]
          BY <2>5, <5>2 DEF Falls
        <5>4. QED
          BY <1>18, <2>0, <2>2, <5>2, <5>3
      <4>3. QED
        BY <2>4, <2>8, <3>1, <4>1, <4>2
    <3>2. ASSUME NEW i \in 1 .. Len(front), i = Len(front)
          PROVE  /\ front[i].call = "callCompute" /\ front[i].by = front[i].t
                 /\ front[i].t = self
                 /\ \A k \in 1 .. i - 1 : front[k].call \notin Stages
                 /\ Clean(self) => RunReady(front[i].t)'
                 /\ \A u \in S : \E k \in 1 .. i - 1 : Packs(front[k], u)
      <4>1. \A k \in 1 .. i - 1 : k \in 1 .. Len(front) /\ k < Len(front)
        BY <2>8, <3>2
      <4>2. \A k \in 1 .. i - 1 : front[k].call \notin Stages
        BY <3>1, <4>1 DEF Stages
      <4>3. \A u \in S : \E k \in 1 .. i - 1 : Packs(front[k], u)
        <5>1. \A u \in S : Has(Do("syncValues", u), "syncValues", u)
          BY <1>4, <2>7 DEF Has
        <5>2. QED
          BY <2>4, <3>2, <5>1 DEF Packs
      <4>4. /\ front[i].call = "callCompute" /\ front[i].by = front[i].t
            /\ front[i].t = self
        <5>1. front[i] = Do("callCompute", self)
          BY <2>9, <3>2
        <5>2. QED
          BY <2>7, <5>1
      <4>5. Clean(self) => RunReady(front[i].t)'
        BY <2>2, <2>6, <4>4 DEF RunReady, Room
      <4>6. QED
        BY <4>2, <4>3, <4>4, <4>5
    <3>3. \A i \in 1 .. Len(front) : i = Len(front) \/ i < Len(front)
      BY <2>8
    <3>4. QED
      BY <2>0, <2>2, <3>1, <3>2, <3>3 DEF Makes, Stages
  <2>12. QED
    BY <2>2, <2>4, <2>5, <2>10, <2>11 DEF Executes
<1>21. QED
  BY <1>3, <1>8, <1>9, <1>10, <1>11, <1>12, <1>13, <1>14, <1>15, <1>16, <1>17,
     <1>19, <1>20 DEF Internal, FinishInsert, FinishAssign, Return
(***************************************************************************)
(* What a tensor still owes.                                               *)
(***************************************************************************)
\* No run of t's compute function on a stack without its callCompute.
LEMMA NoRunsOwed ==
    ASSUME NEW stack \in Seq(Frames), NEW t \in Tensors,
           \A i \in 1 .. Len(stack) : ~Has(stack[i], "callCompute", t)
    PROVE  ~ \E i \in DOMAIN stack : stack[i] = Do("callCompute", t)
<1>1. DOMAIN stack = 1 .. Len(stack)
  BY LenProperties
<1>2. Has(Do("callCompute", t), "callCompute", t)
  BY DEF Do, Has
<1>3. QED
  BY <1>1, <1>2

\* A callCompute of t on the stack is the run of t's compute function.
LEMMA RunsOwed ==
    ASSUME NEW stack \in Seq(Frames), NEW t \in Tensors,
           \A i \in 1 .. Len(stack) :
              stack[i].call # "removeDependent" => stack[i].by = stack[i].t
    PROVE  (\E i \in DOMAIN stack : stack[i] = Do("callCompute", t)) <=>
           \E i \in 1 .. Len(stack) : Has(stack[i], "callCompute", t)
<1>1. DOMAIN stack = 1 .. Len(stack)
  BY LenProperties
<1>2. Has(Do("callCompute", t), "callCompute", t)
  BY DEF Do, Has
<1>3. ASSUME NEW i \in 1 .. Len(stack), Has(stack[i], "callCompute", t)
      PROVE  stack[i] = Do("callCompute", t)
  <2>1. stack[i] \in Frames
    BY ElementOfSeq
  <2>2. stack[i].call = "callCompute" /\ stack[i].t = t /\ stack[i].by = t
    BY <1>3 DEF Has
  <2>3. QED
    BY <2>1, <2>2 DEF Frames, Do
<1>4. QED
  BY <1>1, <1>2, <1>3

\* Only running its compute function settles what a clean tensor owes.
LEMMA ExecutesOwed ==
    ASSUME TypeOK, TypeOK', Orderly, Orderly', agenda # <<>>,
           NEW front \in Seq(Frames), Executes(front), NEW t \in Tensors,
           Clean(t)
    PROVE  Owed(t)' <=> Owed(t) /\ ~Has(agenda[1], "callCompute", t)
<1> DEFINE m == Len(front)
           n == Len(agenda)
<1>1. /\ m \in Nat /\ n \in Nat \ {0} /\ Len(agenda') = m + n - 1
      /\ \A i \in 1 .. Len(agenda') :
            \/ i \in 1 .. m /\ agenda'[i] = front[i]
            \/ \E j \in 2 .. n : i = m + j - 1 /\ agenda'[i] = agenda[j]
      /\ \A i \in 1 .. m : i \in 1 .. Len(agenda') /\ agenda'[i] = front[i]
      /\ \A j \in 2 .. n :
            /\ m + j - 1 \in 1 .. Len(agenda')
            /\ agenda'[m + j - 1] = agenda[j]
      /\ Head(agenda) = agenda[1] /\ 1 \in 1 .. n
  BY Positions DEF Executes
<1>2. self = agenda[1].t /\ \A i \in 1 .. m : i \in 1 .. m
  BY <1>1 DEF self
<1>3. front = <<>> => m = 0
  BY EmptySeq
<1> HIDE DEF m, n
<1>4. Owed(t) <=> needsCompute[t]
                     \/ \E i \in 1 .. n : Has(agenda[i], "callCompute", t)
  BY RunsOwed DEF Owed, Orderly, ByIsSelf, TypeOK, n
<1>5. Owed(t)' <=> needsCompute'[t]
                     \/ \E i \in 1 .. Len(agenda') :
                           Has(agenda'[i], "callCompute", t)
  <2>1. agenda' \in Seq(Frames)
    BY DEF TypeOK
  <2>2. \A i \in 1 .. Len(agenda') :
           agenda'[i].call # "removeDependent" => agenda'[i].by = agenda'[i].t
    BY DEF Orderly, ByIsSelf
  <2>3. (\E i \in DOMAIN agenda' : agenda'[i] = Do("callCompute", t)) <=>
           \E i \in 1 .. Len(agenda') : Has(agenda'[i], "callCompute", t)
    BY <2>1, <2>2, RunsOwed
  <2>4. QED
    BY <2>3 DEF Owed
<1>6. ASSUME NEW j \in 2 .. n, Has(agenda[j], "callCompute", t)
      PROVE  ~Has(agenda[1], "callCompute", t)
  <2>1. j \in 1 .. n /\ 1 < j /\ token[t] \in Int
    BY <1>1 DEF TypeOK
  <2>2. Has(agenda[1], "callCompute", t) => Works(agenda[1])
    BY DEF Has, Works, Stages
  <2>3. Has(agenda[1], "callCompute", t) => token[t] < token[t]
    BY <1>1, <1>6, <2>1, <2>2 DEF Orderly, Descending, Has, n
  <2>4. QED
    BY <2>1, <2>3
<1>7. Has(agenda[1], "callCompute", t) => ~needsCompute[t]
  BY <1>1 DEF Orderly, CallComputeReady, RunReady, Has, n
<1>8. ASSUME Owed(t)'
      PROVE  Owed(t) /\ ~Has(agenda[1], "callCompute", t)
  <2>1. CASE needsCompute'[t]
    BY <1>4, <1>7, <2>1 DEF Executes, Falls
  <2>2. ASSUME NEW i \in 1 .. m, Has(front[i], "callCompute", t)
        PROVE  needsCompute[t]
    BY <2>2 DEF Executes, Makes, Has, Stages, m
  <2>3. ASSUME NEW j \in 2 .. n, Has(agenda[j], "callCompute", t)
        PROVE  Owed(t) /\ ~Has(agenda[1], "callCompute", t)
    <3>1. j \in 1 .. n
      BY <1>1
    <3>2. QED
      BY <1>4, <1>6, <2>3, <3>1
  <2>4. QED
    BY <1>1, <1>4, <1>5, <1>7, <1>8, <2>1, <2>2, <2>3
<1>9. ASSUME Owed(t), ~Has(agenda[1], "callCompute", t)
      PROVE  Owed(t)'
  <2>1. CASE needsCompute[t] /\ ~needsCompute'[t]
    <3>1. t = self
      BY <2>1 DEF Executes, Falls
    <3>2. PICK i \in 1 .. m : Has(front[i], "callCompute", t)
      BY <2>1, <3>1 DEF Executes, Does, m
    <3>3. QED
      BY <1>1, <1>5, <3>2
  <2>2. CASE \E i \in 1 .. n : Has(agenda[i], "callCompute", t)
    <3>1. PICK i \in 1 .. n : Has(agenda[i], "callCompute", t)
      BY <2>2
    <3>2. i \in 2 .. n
      BY <1>1, <1>9, <3>1
    <3>3. QED
      BY <1>1, <1>5, <3>1, <3>2
  <2>3. QED
    BY <1>4, <1>5, <1>9, <2>1, <2>2
<1>10. QED
  BY <1>8, <1>9
(***************************************************************************)
(* The inductive invariant.                                                *)
(***************************************************************************)
LogicalIsEager == \A t \in Tensors : Clean(t) => Logical(t) = eager[t]

\* Components that need no packing are in the storage.
BufferPacked == \A t \in Tensors : ~needsPack[t] => buffer[t] = {}

\* A compiled module assembles while it computes just when the tensor says so.
FusedAgree ==
    \A t \in Tensors :
        /\ assignment[t].defined /\ ~needsCompile[t]
        /\ assignment[t].operands \notin Failing
        => kernel[t].fused = fused[t]

\* Only a compound assignment is computed and leaves its tensor unassembled.
CompoundOwed ==
    \A t \in Tensors : Clean(t) /\ needsAssemble[t] /\ ~Owed(t)
        => assignment[t].compound

\* PendingAcyclic, NamedIsCurrent and CleanOperands, up to the moment the
\* compute function is called.
OwedAcyclic ==
    \A t, u \in Tensors :
        /\ Clean(t) /\ Clean(u) /\ Owed(t) /\ Owed(u)
        /\ u \in assignment[t].operands
        => token[u] < token[t]
OwedNamed ==
    \A t, u \in Tensors : Clean(t) /\ Owed(t) /\ u \in assignment[t].operands
        => want[t][u] = eager[u] /\ Clean(u)

\* What insert and assign may rely on when their synchronization is done.
Requested ==
    /\ client.op = "insert" /\ Clean(client.t) =>
          /\ ~Owed(client.t)
          /\ neverPacked[client.t] => storage[client.t] = {}
    /\ client.op = "assign" =>
          buffer[client.t] = {} /\ client.rhs.defined

\* A tensor holds tokens that were drawn, and a clean one not yet the one it
\* owes.
Drawn ==
    \A t \in Tensors :
        /\ storage[t] \subseteq 0 .. clock /\ buffer[t] \subseteq 0 .. clock
        /\ Clean(t) /\ Owed(t) => storage[t] # {token[t]}

Settled ==
    /\ PendingDefined /\ CompileDefined /\ AssembledAllocated
    /\ LogicalIsEager /\ BufferPacked /\ FusedAgree /\ CompoundOwed
    /\ OwedAcyclic /\ OwedNamed /\ Requested /\ Drawn

EagerInvariant ==
    /\ Bookkeeping /\ PendingAcyclic /\ NamedIsCurrent /\ CompilableIsCurrent
    /\ CleanCompilable /\ CleanOperands
    /\ Orderly /\ Settled

\* An empty stack is in order when nobody reads.
LEMMA EmptyOrderly ==
    ASSUME agenda' = <<>>, client' = Idle
    PROVE  Orderly'
<1>1. \A i \in 1 .. Len(agenda') : FALSE
  BY EmptySeq
<1>2. ~(client'.op \in Reads)
  BY DEF Idle, Reads
<1>3. QED
  BY <1>1, <1>2 DEF Orderly, ByIsSelf, CompileFirst, AssembleFirst,
     ComputeReady, CallAssembleReady, CallComputeReady, Descending, Served,
     ReadServed

\* Executing a call keeps the stack in order, and settles what its tensor
\* owes, if that is clean, just when it runs the compute function.
LEMMA StackOwes ==
    ASSUME EagerInvariant, Internal, agenda # <<>>
    PROVE  /\ Orderly'
           /\ \A t \in Tensors : Clean(t) =>
                 (Owed(t)' <=> Owed(t) /\ ~Has(agenda[1], "callCompute", t))
           /\ client' = client \/ (client' = Idle /\ agenda' = <<>>)
<1>1. TypeOK /\ TypeOK' /\ TypeInvariant
  BY InternalTypes DEF EagerInvariant, Bookkeeping, TypeInvariant
<1>2. client' = client \/ (client' = Idle /\ agenda' = <<>>)
  BY <1>1, StackFrame
<1>3. CASE Unwinds
  <2>1. /\ agenda' = <<>> /\ client' = Idle /\ NoRuns
        /\ needsCompute' = needsCompute
    BY <1>3 DEF Unwinds, Throw
  <2>2. Orderly'
    BY <2>1, EmptyOrderly
  <2>3. ASSUME NEW t \in Tensors, Clean(t)
        PROVE  Owed(t)' <=> Owed(t) /\ ~Has(agenda[1], "callCompute", t)
    <3>1. agenda \in Seq(Frames) /\ agenda' \in Seq(Frames)
      BY <1>1 DEF TypeOK
    <3>2. /\ ~ \E i \in DOMAIN agenda : agenda[i] = Do("callCompute", t)
          /\ ~Has(agenda[1], "callCompute", t)
      <4>1. 1 \in 1 .. Len(agenda)
        BY <3>1, LenProperties, EmptySeq
      <4>2. QED
        BY <2>1, <2>3, <3>1, <4>1, NoRunsOwed DEF NoRuns, Has
    <3>3. ~ \E i \in DOMAIN agenda' : agenda'[i] = Do("callCompute", t)
      <4>1. \A i \in 1 .. Len(agenda') : ~Has(agenda'[i], "callCompute", t)
        BY <2>1, EmptySeq
      <4>2. QED
        BY <3>1, <4>1, NoRunsOwed
    <3>4. QED
      BY <2>1, <3>2, <3>3 DEF Owed
  <2>4. QED
    BY <1>2, <2>2, <2>3
<1>4. ASSUME NEW front \in Seq(Frames), Executes(front)
      PROVE  /\ Orderly'
             /\ \A t \in Tensors : Clean(t) =>
                   (Owed(t)' <=> Owed(t) /\ ~Has(agenda[1], "callCompute", t))
  <2>1. Orderly'
    BY <1>1, <1>4, OrderlyKeeps DEF EagerInvariant, Executes
  <2>2. QED
    BY <1>1, <1>4, <2>1, ExecutesOwed DEF EagerInvariant
<1>5. Unwinds \/ \E front \in Seq(Frames) : Executes(front)
  BY StackExecutes DEF EagerInvariant, Settled
<1>6. QED
  BY <1>2, <1>3, <1>4, <1>5
\* A clean tensor that owes a computation has an assignment and nothing to
\* pack.
LEMMA OwedReady ==
    ASSUME TypeOK, PackedOrPending, Orderly, PendingDefined,
           NEW t \in Tensors, Clean(t), Owed(t)
    PROVE  ~needsPack[t] /\ assignment[t].defined
<1>1. CASE needsCompute[t]
  BY <1>1 DEF PackedOrPending, PendingDefined
<1>2. CASE ~needsCompute[t]
  <2>1. PICK i \in 1 .. Len(agenda) : Has(agenda[i], "callCompute", t)
    BY <1>2, RunsOwed DEF Owed, Orderly, ByIsSelf, TypeOK
  <2>2. QED
    BY <2>1 DEF Orderly, CallComputeReady, RunReady, Has
<1>3. QED
  BY <1>1, <1>2

\* The calls that change what a tensor holds.
LEMMA StackData ==
    ASSUME EagerInvariant, Internal, agenda # <<>>
    PROVE  \/ SyncPack \/ CompileKernel \/ CompileThrows
           \/ CallAssemble \/ CallCompute
           \/ /\ UNCHANGED <<neverPacked, needsPack, needsCompile,
                             needsAssemble, fused, data, kernel>>
              /\ Head(agenda).call = "callCompute" => ~Clean(self)
<1>1. CallMissing => ~Clean(self)
  BY KernelThere DEF EagerInvariant, Settled, Bookkeeping, TypeInvariant
<1>2. \A op : ~Returning(op)
  BY DEF Returning
<1>3. QED
  BY <1>1, <1>2 DEF Internal, SyncCompute, SyncNothing, CompileUndefined,
     CompileRejects,
     CompileAlready, RunUncompiled, AssembleAlready, AssembleOperands,
     ComputeAlready, ComputeOperands, CallMissing, RemoveDependent,
     ClearDependents, FinishInsert, FinishAssign, Return, Executing, flags,
     code

\* When the compute function of a clean tensor is called, its operands are
\* done and hold what the assignment named (tensor.cpp:817-855).
LEMMA OperandsDone ==
    ASSUME EagerInvariant, agenda # <<>>, Executing("callCompute"), Clean(self)
    PROVE  /\ Owed(self)
           /\ \A u \in assignment[self].operands :
                 storage[u] = want[self][u]
<1>1. TypeOK /\ TypeInvariant
  BY DEF EagerInvariant, Bookkeeping, TypeInvariant
<1>2. /\ self \in Tensors /\ Head(agenda) = agenda[1] /\ agenda[1].t = self
      /\ 1 \in 1 .. Len(agenda) /\ Len(agenda) \in Nat
  <2>1. Len(agenda) \in Nat \ {0} /\ Head(agenda) = agenda[1]
    BY <1>1, HeadTailProperties, EmptySeq, LenProperties DEF TypeOK
  <2>2. QED
    BY <1>1, <2>1, StackType DEF self
<1>3. \A t \in Tensors : Owed(t) <=> needsCompute[t]
          \/ \E i \in 1 .. Len(agenda) : Has(agenda[i], "callCompute", t)
  BY <1>1, RunsOwed DEF Owed, EagerInvariant, Orderly, ByIsSelf, TypeOK
<1>4. agenda[1].call = "callCompute" /\ Owed(self)
  BY <1>2, <1>3 DEF Executing, Has
<1>5. ASSUME NEW u \in assignment[self].operands
      PROVE  storage[u] = want[self][u]
  <2>1. u \in Tensors
    BY <1>1, <1>2, OperandsType
  <2>0. want[self][u] = eager[u] /\ Clean(u)
    BY <1>2, <1>4, <2>1 DEF EagerInvariant, Settled, OwedNamed
  <2>2. ~needsPack[u] /\ ~needsCompute[u]
    <3>1. \A i \in 1 .. 1 - 1 : FALSE
      OBVIOUS
    <3>2. QED
      BY <1>2, <1>4, <3>1 DEF EagerInvariant, Orderly, Served
  <2>3. ~Owed(u)
    <3> SUFFICES ASSUME Owed(u) PROVE FALSE
      OBVIOUS
    <3>1. token[u] < token[self] /\ token[u] \in Int /\ token[self] \in Int
      BY <1>1, <1>2, <1>4, <2>0, <2>1
         DEF EagerInvariant, Settled, OwedAcyclic, TypeOK
    <3>2. PICK i \in 1 .. Len(agenda) : Has(agenda[i], "callCompute", u)
      BY <1>3, <2>1, <2>2
    <3>3. i # 1
      BY <1>2, <3>1, <3>2 DEF Has
    <3>4. 1 < i /\ Works(agenda[1])
      BY <1>2, <1>4, <3>3 DEF Works, Stages
    <3>5. token[self] < token[u]
      BY <1>2, <2>0, <3>2, <3>4 DEF EagerInvariant, Orderly, Descending, Has
    <3>6. QED
      BY <3>1, <3>5
  <2>4. storage[u] = eager[u]
    BY <2>0, <2>1, <2>2, <2>3
       DEF EagerInvariant, Settled, LogicalIsEager, Logical
  <2>5. QED
    BY <2>0, <2>4
<1>6. QED
  BY <1>4, <1>5
\* Executing a call leaves the values of the tensors alone.
LEMMA StackSettled ==
    ASSUME EagerInvariant, Internal, agenda # <<>>
    PROVE  Settled'
<1>1. TypeOK /\ TypeInvariant /\ PackedOrPending /\ TokensDrawn /\ Settled
  BY DEF EagerInvariant, Bookkeeping, TypeInvariant
<1>2. /\ self \in Tensors /\ Head(agenda) = agenda[1] /\ agenda[1].t = self
      /\ 1 \in 1 .. Len(agenda)
  <2>1. Len(agenda) \in Nat \ {0} /\ Head(agenda) = agenda[1]
    BY <1>1, HeadTailProperties, EmptySeq, LenProperties DEF TypeOK
  <2>2. QED
    BY <1>1, <2>1, StackType DEF self
<1>3. /\ UNCHANGED <<assignment, clock, token, want, eager>>
      /\ \A t \in Tensors : needsCompute'[t] => needsCompute[t]
      /\ \A t : Clean(t)' <=> Clean(t)
  BY <1>1, StackFrame DEF Clean
<1>4. /\ \A t \in Tensors : Clean(t) =>
            (Owed(t)' <=> Owed(t) /\ ~Has(agenda[1], "callCompute", t))
      /\ client' = client \/ client' = Idle
  BY StackOwes
<1>5. PendingDefined' /\ OwedAcyclic' /\ OwedNamed'
  BY <1>1, <1>3, <1>4 DEF Settled, PendingDefined, OwedAcyclic, OwedNamed
<1>6. /\ (Head(agenda).call = "callCompute" => ~Clean(self)) =>
            \A t \in Tensors : Clean(t) => (Owed(t)' <=> Owed(t))
      /\ \A t \in Tensors \ {self} : Clean(t) => (Owed(t)' <=> Owed(t))
  BY <1>2, <1>4 DEF Has
<1>7. client.op \in {"insert", "assign"} => client.t \in Tensors
  BY <1>1, RequestType DEF Methods
<1>8. Idle.op \notin {"insert", "assign"}
  BY DEF Idle
<1> DEFINE Held == /\ CompileDefined /\ AssembledAllocated
                   /\ LogicalIsEager /\ BufferPacked /\ FusedAgree
                   /\ CompoundOwed /\ Requested /\ Drawn
<1> SUFFICES Held'
  BY <1>5 DEF Settled
<1>9. CASE /\ UNCHANGED <<neverPacked, needsPack, needsCompile,
                          needsAssemble, fused, data, kernel>>
           /\ Head(agenda).call = "callCompute" => ~Clean(self)
  <2>1. UNCHANGED <<buffer, storage, allocated>>
    BY <1>9 DEF data
  <2>2. /\ CompileDefined' /\ AssembledAllocated' /\ BufferPacked'
        /\ FusedAgree'
    BY <1>1, <1>3, <1>9, <2>1
       DEF Settled, CompileDefined, AssembledAllocated, BufferPacked, FusedAgree
  <2>3. LogicalIsEager'
    BY <1>1, <1>3, <1>6, <1>9, <2>1 DEF Settled, LogicalIsEager, Logical
  <2>4. CompoundOwed' /\ Drawn'
    BY <1>1, <1>3, <1>6, <1>9, <2>1 DEF Settled, CompoundOwed, Drawn
  <2>5. Requested'
    BY <1>1, <1>3, <1>4, <1>6, <1>7, <1>8, <1>9, <2>1 DEF Settled, Requested
  <2>6. QED
    BY <2>2, <2>3, <2>4, <2>5
<1>10. CASE CompileThrows
  <2>1. /\ needsCompile' = [needsCompile EXCEPT ![self] = FALSE]
        /\ assignment[self].operands \in Failing
        /\ UNCHANGED <<neverPacked, needsPack, needsAssemble, fused,
                       buffer, storage, allocated>>
        /\ Head(agenda).call # "callCompute"
    BY <1>10 DEF CompileThrows, CompileFlag, Executing, data, Failing
  <2>0. \A t \in Tensors \ {self} : kernel'[t] = kernel[t]
    BY <1>1, <1>2, <1>10 DEF CompileThrows, TypeOK
  <2>2. \A t \in Tensors : needsCompile'[t] = (t # self /\ needsCompile[t])
    BY <1>1, <1>2, <2>1 DEF TypeOK
  <2>3. /\ CompileDefined' /\ AssembledAllocated' /\ BufferPacked'
        /\ FusedAgree'
    BY <1>1, <1>3, <2>0, <2>1, <2>2
       DEF Settled, CompileDefined, AssembledAllocated, BufferPacked, FusedAgree
  <2>4. LogicalIsEager'
    BY <1>1, <1>3, <1>6, <2>1 DEF Settled, LogicalIsEager, Logical
  <2>5. CompoundOwed' /\ Drawn'
    BY <1>1, <1>3, <1>6, <2>1 DEF Settled, CompoundOwed, Drawn
  <2>6. Requested'
    BY <1>1, <1>3, <1>4, <1>6, <1>7, <1>8, <2>1 DEF Settled, Requested
  <2>7. QED
    BY <2>3, <2>4, <2>5, <2>6
<1>11. CASE SyncPack
  <2>1. /\ needsPack[self]
        /\ needsPack' = [needsPack EXCEPT ![self] = FALSE]
        /\ neverPacked' = [neverPacked EXCEPT ![self] = FALSE]
        /\ storage' = [storage EXCEPT ![self] = buffer[self] \cup
                          (IF neverPacked[self] THEN {} ELSE storage[self])]
        /\ buffer' = [buffer EXCEPT ![self] = {}]
        /\ allocated' = [allocated EXCEPT ![self] = TRUE]
        /\ UNCHANGED <<needsCompile, needsAssemble, fused, kernel>>
        /\ Head(agenda).call # "callCompute"
    BY <1>11 DEF SyncPack, Pack, Executing, code
  <2>2. /\ Clean(self) => ~Owed(self)
        /\ \A t \in Tensors : Clean(t) => (Owed(t)' <=> Owed(t))
    BY <1>1, <1>2, <1>6, <2>1, OwedReady DEF EagerInvariant, Settled
  <2>3. /\ neverPacked'[self] = FALSE /\ needsPack'[self] = FALSE
        /\ storage'[self] = buffer[self] \cup
                   (IF neverPacked[self] THEN {} ELSE storage[self])
        /\ buffer'[self] = {}
        /\ \A t \in Tensors \ {self} :
              /\ neverPacked'[t] = neverPacked[t] /\ needsPack'[t] = needsPack[t]
              /\ storage'[t] = storage[t] /\ buffer'[t] = buffer[t]
        /\ \A t \in Tensors : allocated[t] => allocated'[t]
    BY <1>1, <1>2, <2>1 DEF TypeOK
  <2>4. /\ CompileDefined' /\ AssembledAllocated' /\ BufferPacked'
        /\ FusedAgree'
    BY <1>1, <1>3, <2>1, <2>3
       DEF Settled, CompileDefined, AssembledAllocated, BufferPacked, FusedAgree
  <2>5. LogicalIsEager'
    <3> SUFFICES ASSUME NEW t \in Tensors, Clean(t)
                 PROVE  Logical(t)' = eager[t]
      BY <1>3 DEF LogicalIsEager
    <3>1. CASE t = self
      <4>1. Logical(t)' = storage'[t]
        BY <2>2, <2>3, <3>1 DEF Logical
      <4>2. Logical(t) = storage'[t]
        BY <2>1, <2>3, <3>1 DEF Logical
      <4>3. QED
        BY <1>1, <4>1, <4>2 DEF Settled, LogicalIsEager
    <3>2. CASE t # self
      BY <1>1, <1>3, <2>2, <2>3, <3>2 DEF Settled, LogicalIsEager, Logical
    <3>3. QED
      BY <3>1, <3>2
  <2>6. CompoundOwed'
    BY <1>1, <1>3, <2>1, <2>2 DEF Settled, CompoundOwed
  <2>7. Drawn'
    <3>1. \A t \in Tensors : storage'[t] \subseteq 0 .. clock
                             /\ buffer'[t] \subseteq 0 .. clock
      BY <1>1, <1>2, <2>3 DEF Settled, Drawn
    <3>2. \A t \in Tensors : Clean(t) /\ Owed(t) => storage'[t] = storage[t]
      BY <2>2, <2>3
    <3>3. QED
      BY <1>1, <1>3, <2>2, <3>1, <3>2 DEF Settled, Drawn
  <2>8. Requested'
    BY <1>1, <1>3, <1>4, <1>7, <1>8, <2>2, <2>3 DEF Settled, Requested
  <2>9. QED
    BY <2>4, <2>5, <2>6, <2>7, <2>8
<1>12. CASE CompileKernel
  <2>1. /\ needsCompile' = [needsCompile EXCEPT ![self] = FALSE]
        /\ kernel' = [kernel EXCEPT ![self] =
                         [of |-> assignment[self], fused |-> fused[self]]]
        /\ UNCHANGED <<neverPacked, needsPack, needsAssemble, fused, buffer,
                       storage, allocated>>
        /\ Head(agenda).call # "callCompute"
    BY <1>12 DEF CompileKernel, CompileFlag, Executing, data
  <2>2. FusedAgree'
    <3>1. kernel'[self].fused = fused[self]
      BY <1>1, <1>2, <2>1 DEF TypeOK
    <3>2. \A t \in Tensors \ {self} :
             needsCompile'[t] = needsCompile[t] /\ kernel'[t] = kernel[t]
      BY <1>1, <1>2, <2>1 DEF TypeOK
    <3>3. QED
      BY <1>1, <1>3, <2>1, <3>1, <3>2 DEF Settled, FusedAgree
  <2>3. CompileDefined' /\ AssembledAllocated' /\ BufferPacked'
    BY <1>1, <1>2, <1>3, <2>1
       DEF Settled, CompileDefined, AssembledAllocated, BufferPacked, TypeOK
  <2>4. LogicalIsEager'
    BY <1>1, <1>3, <1>6, <2>1 DEF Settled, LogicalIsEager, Logical
  <2>5. CompoundOwed' /\ Drawn'
    BY <1>1, <1>3, <1>6, <2>1 DEF Settled, CompoundOwed, Drawn
  <2>6. Requested'
    BY <1>1, <1>3, <1>4, <1>6, <1>7, <1>8, <2>1 DEF Settled, Requested
  <2>7. QED
    BY <2>2, <2>3, <2>4, <2>5, <2>6
<1>13. CASE CallAssemble
  <2>1. /\ \/ UNCHANGED <<needsAssemble, storage, allocated>>
           \/ /\ needsAssemble' = [needsAssemble EXCEPT ![self] = FALSE]
              /\ storage' = [storage EXCEPT ![self] = {}]
              /\ allocated' = [allocated EXCEPT ![self] = TRUE]
        /\ UNCHANGED <<neverPacked, needsPack, needsCompile, fused, buffer,
                       kernel>>
        /\ Executing("callAssemble")
    BY <1>13 DEF CallAssemble, code
  <2>2. Clean(self) => Owed(self) /\ ~needsPack[self]
    <3>1. Clean(self) => needsCompute[self]
      BY <1>2, <2>1 DEF Executing, EagerInvariant, Orderly, CallAssembleReady
    <3>2. QED
      BY <1>1, <1>2, <3>1 DEF Owed, PackedOrPending
  <2>3. \A t \in Tensors : Clean(t) => (Owed(t)' <=> Owed(t))
    BY <1>6, <2>1 DEF Executing
  <2>4. /\ storage'[self] = {} \/ storage'[self] = storage[self]
        /\ \A t \in Tensors \ {self} : storage'[t] = storage[t]
        /\ \A t \in Tensors :
              /\ needsAssemble'[t] => needsAssemble[t]
              /\ ~needsAssemble'[t] => ~needsAssemble[t] \/ allocated'[t]
              /\ allocated[t] => allocated'[t]
    BY <1>1, <1>2, <2>1 DEF TypeOK
  <2>5. /\ CompileDefined' /\ AssembledAllocated' /\ BufferPacked'
        /\ FusedAgree'
    BY <1>1, <1>3, <2>1, <2>4
       DEF Settled, CompileDefined, AssembledAllocated, BufferPacked, FusedAgree
  <2>6. LogicalIsEager'
    <3> SUFFICES ASSUME NEW t \in Tensors, Clean(t)
                 PROVE  Logical(t)' = eager[t]
      BY <1>3 DEF LogicalIsEager
    <3>1. Logical(t)' = Logical(t)
      BY <1>3, <2>1, <2>2, <2>3, <2>4 DEF Logical
    <3>2. QED
      BY <1>1, <3>1 DEF Settled, LogicalIsEager
  <2>7. CompoundOwed'
    BY <1>1, <1>3, <2>3, <2>4 DEF Settled, CompoundOwed
  <2>8. Drawn'
    BY <1>1, <1>3, <2>1, <2>3, <2>4 DEF Settled, Drawn
  <2>9. Requested'
    BY <1>1, <1>3, <1>4, <1>7, <1>8, <2>1, <2>2, <2>3, <2>4
       DEF Settled, Requested
  <2>10. QED
    BY <2>5, <2>6, <2>7, <2>8, <2>9
<1>14. CASE CallCompute /\ Clean(self)
  <2>1. /\ Executing("callCompute")
        /\ UNCHANGED <<neverPacked, needsPack, needsCompile, fused, buffer,
                       kernel>>
        /\ storage' = [storage EXCEPT ![self] =
                          IF kernel[self].fused /\ ~fused[self]
                          THEN storage[self] ELSE KernelResult(self)]
        /\ ~fused[self] => UNCHANGED <<needsAssemble, allocated>>
        /\ fused[self] =>
              /\ needsAssemble' = [needsAssemble EXCEPT ![self] = FALSE]
              /\ allocated' = [allocated EXCEPT ![self] =
                                  allocated[self] \/ kernel[self].fused]
    BY <1>14 DEF CallCompute, code
  <2>2. RunReady(self)
    BY <1>2, <1>14, <2>1
       DEF Executing, EagerInvariant, Orderly, CallComputeReady
  <2>3. kernel[self].of = assignment[self] /\ kernel[self].fused = fused[self]
    BY <1>1, <1>2, <1>14, <2>2
       DEF RunReady, EagerInvariant, Settled, CompilableIsCurrent, FusedAgree,
           CleanCompilable
  <2>4. Owed(self) /\ \A t \in Tensors : t = self => ~Owed(t)'
    BY <1>2, <1>4, <1>14, <2>1, OperandsDone DEF Executing, Has
  <2>5. KernelResult(self) = {token[self]}
    <3>1. HasSpace(self)
      BY <2>2, <2>3 DEF HasSpace, RunReady, Room
    <3>2. QED
      BY <1>14, <2>1, <2>3, <3>1, OperandsDone DEF KernelResult
  <2>6. /\ storage'[self] = {token[self]}
        /\ \A t \in Tensors \ {self} : storage'[t] = storage[t]
    BY <1>1, <1>2, <2>1, <2>3, <2>5 DEF TypeOK
  <2>7. /\ \A t \in Tensors :
              /\ needsAssemble'[t] => needsAssemble[t]
              /\ ~needsAssemble'[t] => ~needsAssemble[t] \/ allocated'[t]
              /\ allocated[t] => allocated'[t]
        /\ needsAssemble'[self] => ~fused[self]
    <3>1. CASE ~fused[self]
      BY <2>1, <3>1
    <3>2. CASE fused[self]
      <4>1. (allocated[self] \/ kernel[self].fused) = TRUE
        BY <2>3, <3>2
      <4>2. allocated' = [allocated EXCEPT ![self] = TRUE]
        BY <2>1, <3>2, <4>1
      <4>3. needsAssemble' = [needsAssemble EXCEPT ![self] = FALSE]
        BY <2>1, <3>2
      <4>4. QED
        BY <1>1, <1>2, <4>2, <4>3 DEF TypeOK
    <3>3. QED
      BY <3>1, <3>2
  <2>8. /\ CompileDefined' /\ AssembledAllocated' /\ BufferPacked'
        /\ FusedAgree'
    BY <1>1, <1>3, <2>1, <2>7
       DEF Settled, CompileDefined, AssembledAllocated, BufferPacked, FusedAgree
  <2>9. LogicalIsEager'
    <3> SUFFICES ASSUME NEW t \in Tensors, Clean(t)
                 PROVE  Logical(t)' = eager[t]
      BY <1>3 DEF LogicalIsEager
    <3>1. CASE t = self
      <4>1. ~needsPack[t]
        BY <2>2, <3>1 DEF RunReady
      <4>2. Logical(t)' = {token[t]} /\ Logical(t) = {token[t]}
        BY <2>1, <2>4, <2>6, <3>1, <4>1 DEF Logical
      <4>3. QED
        BY <1>1, <4>2 DEF Settled, LogicalIsEager
    <3>2. CASE t # self
      BY <1>1, <1>3, <1>6, <2>1, <2>6, <3>2
         DEF Settled, LogicalIsEager, Logical
    <3>3. QED
      BY <3>1, <3>2
  <2>10. CompoundOwed'
    <3> SUFFICES ASSUME NEW t \in Tensors, Clean(t), needsAssemble'[t], ~Owed(t)'
                 PROVE  assignment[t].compound
      BY <1>3 DEF CompoundOwed
    <3>1. CASE t = self
      BY <2>2, <2>7, <3>1 DEF RunReady, Room
    <3>2. CASE t # self
      BY <1>1, <1>6, <2>7, <3>2 DEF Settled, CompoundOwed
    <3>3. QED
      BY <3>1, <3>2
  <2>11. Drawn'
    <3>1. {token[self]} \subseteq 0 .. clock
      BY <1>1, <1>2 DEF TypeOK, TokensDrawn
    <3>2. QED
      BY <1>1, <1>3, <1>6, <2>1, <2>4, <2>6, <3>1 DEF Settled, Drawn
  <2>12. Requested'
    <3>1. client.op = "insert" => client.t # self
      BY <1>1, <1>14, <2>4 DEF Settled, Requested
    <3>2. QED
      BY <1>1, <1>3, <1>4, <1>6, <1>7, <1>8, <2>1, <2>6, <3>1
         DEF Settled, Requested
  <2>13. QED
    BY <2>8, <2>9, <2>10, <2>11, <2>12
\* What a spoiled tensor computes does not matter.
<1>15. CASE CallCompute /\ ~Clean(self)
  <2>1. /\ UNCHANGED <<neverPacked, needsPack, needsCompile, fused, buffer,
                       kernel>>
        /\ storage' = [storage EXCEPT ![self] =
                          IF kernel[self].fused /\ ~fused[self]
                          THEN storage[self] ELSE KernelResult(self)]
        /\ ~fused[self] => UNCHANGED <<needsAssemble, allocated>>
        /\ fused[self] =>
              /\ needsAssemble' = [needsAssemble EXCEPT ![self] = FALSE]
              /\ allocated' = [allocated EXCEPT ![self] =
                                  allocated[self] \/ kernel[self].fused]
    BY <1>15 DEF CallCompute, code
  <2>2. \A t \in Tensors : Clean(t) =>
           /\ t # self
           /\ Owed(t)' <=> Owed(t)
           /\ needsAssemble'[t] = needsAssemble[t]
           /\ allocated'[t] = allocated[t]
           /\ storage'[t] = storage[t]
    BY <1>1, <1>2, <1>6, <1>15, <2>1 DEF TypeOK
  <2>3. \A t \in Tensors : storage'[t] \subseteq 0 .. clock
    <3>1. token[self] \in 0 .. clock /\ 0 \in 0 .. clock
      BY <1>1, <1>2 DEF TypeOK, TokensDrawn
    <3>2. KernelResult(self) \subseteq 0 .. clock
      BY <3>1 DEF KernelResult, Garbage
    <3>3. QED
      BY <1>1, <1>2, <2>1, <3>2 DEF Settled, Drawn, TypeOK
  <2>4. /\ CompileDefined' /\ AssembledAllocated' /\ BufferPacked'
        /\ FusedAgree'
    BY <1>1, <1>3, <2>1, <2>2
       DEF Settled, CompileDefined, AssembledAllocated, BufferPacked, FusedAgree
  <2>5. LogicalIsEager'
    BY <1>1, <1>3, <2>1, <2>2 DEF Settled, LogicalIsEager, Logical
  <2>6. CompoundOwed' /\ Drawn'
    BY <1>1, <1>3, <2>1, <2>2, <2>3 DEF Settled, CompoundOwed, Drawn
  <2>7. Requested'
    BY <1>1, <1>3, <1>4, <1>7, <1>8, <2>1, <2>2 DEF Settled, Requested
  <2>8. QED
    BY <2>4, <2>5, <2>6, <2>7
<1>16. QED
  BY <1>9, <1>11, <1>12, <1>13, <1>14, <1>10, <1>15, StackData
(***************************************************************************)
(* The tails of the public methods.                                        *)
(***************************************************************************)
\* Between two calls of the client a tensor owes what its flag says, and so
\* does a clean tensor whenever nothing clean is being computed.
LEMMA IdleOwed ==
    ASSUME TypeOK, NEW t \in Tensors
    PROVE  /\ NoRuns /\ Clean(t) => (Owed(t) <=> needsCompute[t])
           /\ agenda = <<>> => NoRuns /\ (Owed(t) <=> needsCompute[t])
<1>1. agenda \in Seq(Frames)
  BY DEF TypeOK
<1>2. agenda = <<>> =>
         NoRuns /\ \A i \in 1 .. Len(agenda) : ~Has(agenda[i], "callCompute", t)
  BY EmptySeq DEF NoRuns
<1>3. NoRuns /\ Clean(t) =>
         \A i \in 1 .. Len(agenda) : ~Has(agenda[i], "callCompute", t)
  BY DEF NoRuns, Has, Clean
<1>4. (\A i \in 1 .. Len(agenda) : ~Has(agenda[i], "callCompute", t))
         => ~ \E i \in DOMAIN agenda : agenda[i] = Do("callCompute", t)
  BY <1>1, NoRunsOwed
<1>5. QED
  BY <1>2, <1>3, <1>4 DEF Owed

\* The same after a step.
LEMMA IdleOwedNext ==
    ASSUME TypeOK', NEW t \in Tensors
    PROVE  /\ NoRuns' /\ Clean(t)' => (Owed(t)' <=> needsCompute'[t])
           /\ agenda' = <<>> => NoRuns' /\ (Owed(t)' <=> needsCompute'[t])
<1>1. agenda' \in Seq(Frames)
  BY DEF TypeOK
<1>2. agenda' = <<>> =>
         NoRuns' /\ \A i \in 1 .. Len(agenda') : ~Has(agenda'[i], "callCompute", t)
  BY EmptySeq DEF NoRuns
<1>3. NoRuns' /\ Clean(t)' =>
         \A i \in 1 .. Len(agenda') : ~Has(agenda'[i], "callCompute", t)
  BY DEF NoRuns, Has, Clean
<1>4. (\A i \in 1 .. Len(agenda') : ~Has(agenda'[i], "callCompute", t))
         => ~ \E i \in DOMAIN agenda' : agenda'[i] = Do("callCompute", t)
  BY <1>1, NoRunsOwed
<1>5. QED
  BY <1>2, <1>3, <1>4 DEF Owed

\* Then no assignment of a clean tensor reads another in a circle, and all
\* are current and read clean tensors only.
LEMMA IdleKeeps ==
    ASSUME TypeOK', PendingAcyclic', NamedIsCurrent', CleanOperands', NoRuns'
    PROVE  OwedAcyclic' /\ OwedNamed'
<1>1. \A t \in Tensors : Clean(t)' => (Owed(t)' <=> needsCompute'[t])
  BY IdleOwedNext
<1>2. QED
  BY <1>1 DEF OwedAcyclic, OwedNamed, PendingAcyclic, NamedIsCurrent,
     CleanOperands, Waits

\* An insert adds a component to the value (tensor.h:605-640).
LEMMA InsertSettled ==
    ASSUME EagerInvariant, TypeOK', PendingAcyclic', NamedIsCurrent',
           CleanOperands', FinishInsert
    PROVE  Settled'
<1> DEFINE t == client.t
<1>1. TypeOK /\ PackedOrPending /\ Settled
  BY DEF EagerInvariant, Bookkeeping, TypeInvariant
<1>2. t \in Tensors /\ client.op = "insert" /\ agenda = <<>>
  BY <1>1, RequestType DEF FinishInsert, Returning, Methods
<1>3. /\ buffer' = [buffer EXCEPT ![t] = @ \cup {clock + 1}]
      /\ needsPack' = [needsPack EXCEPT ![t] = TRUE]
      /\ eager' = [eager EXCEPT ![t] = @ \cup {clock + 1}]
      /\ clock' = clock + 1 /\ client' = Idle /\ agenda' = <<>>
      /\ UNCHANGED <<neverPacked, needsCompile, needsAssemble, needsCompute,
                     fused, storage, allocated, assignment, kernel, token,
                     want>>
      /\ \A u : Clean(u)' <=> Clean(u)
  BY <1>2 DEF FinishInsert, code, Clean
<1> HIDE DEF t
<1>4. /\ \A u \in Tensors : Owed(u) <=> needsCompute[u]
      /\ \A u \in Tensors : Owed(u)' <=> needsCompute'[u]
      /\ OwedAcyclic' /\ OwedNamed'
  BY <1>1, <1>2, <1>3, IdleOwed, IdleOwedNext, IdleKeeps
<1>5. Clean(t) => ~Owed(t) /\ (neverPacked[t] => storage[t] = {})
  BY <1>1, <1>2 DEF Settled, Requested, t
<1>6. /\ buffer'[t] = buffer[t] \cup {clock + 1}
      /\ needsPack'[t]
      /\ eager'[t] = eager[t] \cup {clock + 1}
      /\ \A u \in Tensors \ {t} :
            /\ buffer'[u] = buffer[u] /\ needsPack'[u] = needsPack[u]
            /\ eager'[u] = eager[u]
  BY <1>1, <1>2, <1>3 DEF TypeOK
<1>7. PendingDefined' /\ CompileDefined' /\ AssembledAllocated' /\ FusedAgree'
  BY <1>1, <1>3 DEF Settled, PendingDefined, CompileDefined,
     AssembledAllocated, FusedAgree
<1>8. BufferPacked'
  BY <1>1, <1>6 DEF Settled, BufferPacked
<1>9. CompoundOwed'
  BY <1>1, <1>3, <1>4 DEF Settled, CompoundOwed
<1>10. LogicalIsEager'
  <2> SUFFICES ASSUME NEW u \in Tensors, Clean(u)
               PROVE  Logical(u)' = eager'[u]
    BY <1>3 DEF LogicalIsEager
  <2>1. Logical(u) = eager[u]
    BY <1>1 DEF Settled, LogicalIsEager
  <2>2. CASE u = t
    <3>1. Logical(u)' = buffer[t] \cup {clock + 1}
                           \cup (IF neverPacked[t] THEN {} ELSE storage[t])
      BY <1>3, <1>6, <2>2 DEF Logical
    <3>2. needsPack[t] =>
             Logical(u) = buffer[t] \cup (IF neverPacked[t] THEN {} ELSE storage[t])
      BY <2>2 DEF Logical
    <3>3. ~needsPack[t] => Logical(u) = storage[t] /\ buffer[t] = {}
      BY <1>1, <1>2, <1>5, <2>2 DEF Logical, Settled, BufferPacked
    <3>4. QED
      BY <1>5, <1>6, <2>1, <2>2, <3>1, <3>2, <3>3
  <2>3. CASE u # t
    BY <1>3, <1>4, <1>6, <2>1, <2>3 DEF Logical
  <2>4. QED
    BY <2>2, <2>3
<1>11. Requested'
  BY <1>3 DEF Requested, Idle
<1>12. Drawn'
  <2>1. clock \in Nat
    BY <1>1 DEF TypeOK
  <2>2. 0 .. clock \subseteq 0 .. clock + 1 /\ clock + 1 \in 0 .. clock + 1
    BY <2>1
  <2>3. ASSUME NEW u \in Tensors
        PROVE  storage[u] \subseteq 0 .. clock /\ buffer[u] \subseteq 0 .. clock
    BY <1>1 DEF Settled, Drawn
  <2>4. ASSUME NEW u \in Tensors
        PROVE  storage'[u] \subseteq 0 .. clock' /\ buffer'[u] \subseteq 0 .. clock'
    BY <1>3, <1>6, <2>2, <2>3
  <2>5. QED
    BY <1>1, <1>3, <1>4, <2>4 DEF Settled, Drawn
<1>13. QED
  BY <1>4, <1>7, <1>8, <1>9, <1>10, <1>11, <1>12 DEF Settled

\* An assignment replaces the value, and delays it (tensor.cpp:500-530).
LEMMA AssignSettled ==
    ASSUME EagerInvariant, TypeOK', PendingAcyclic', NamedIsCurrent',
           CleanOperands', FinishAssign
    PROVE  Settled'
<1> DEFINE t == client.t
           rhs == client.rhs
<1>1. TypeOK /\ PackedOrPending /\ Settled
  BY DEF EagerInvariant, Bookkeeping, TypeInvariant
<1>2. t \in Tensors /\ client.op = "assign" /\ agenda = <<>>
  BY <1>1, RequestType DEF FinishAssign, Returning, Methods
<1>3. /\ needsPack' = [needsPack EXCEPT ![t] = FALSE]
      /\ needsCompile' = [needsCompile EXCEPT ![t] =
                             @ \/ NeedsNewKernel(t, rhs)]
      /\ needsAssemble' = [needsAssemble EXCEPT ![t] = TRUE]
      /\ needsCompute' = [needsCompute EXCEPT ![t] = TRUE]
      /\ assignment' = [assignment EXCEPT ![t] = rhs]
      /\ token' = [token EXCEPT ![t] = clock + 1]
      /\ eager' = [eager EXCEPT ![t] = {clock + 1}]
      /\ clock' = clock + 1 /\ client' = Idle /\ agenda' = <<>>
      /\ spoiled' = [spoiled EXCEPT ![t] = Spoils(rhs)]
      /\ UNCHANGED <<neverPacked, fused, buffer, storage, allocated, kernel>>
  BY <1>2 DEF FinishAssign, data
<1>4. buffer[t] = {} /\ rhs.defined
  BY <1>1, <1>2 DEF Settled, Requested
<1> HIDE DEF t, rhs
<1>5. /\ \A u \in Tensors : Owed(u) <=> needsCompute[u]
      /\ \A u \in Tensors : Owed(u)' <=> needsCompute'[u]
      /\ OwedAcyclic' /\ OwedNamed'
  BY <1>1, <1>2, <1>3, IdleOwed, IdleOwedNext, IdleKeeps
<1>6. /\ needsPack'[t] = FALSE /\ needsAssemble'[t] = TRUE
      /\ needsCompute'[t] = TRUE
      /\ assignment'[t] = rhs /\ token'[t] = clock + 1
      /\ eager'[t] = {clock + 1}
      /\ \A u \in Tensors \ {t} :
            /\ needsPack'[u] = needsPack[u]
            /\ needsCompile'[u] = needsCompile[u]
            /\ needsAssemble'[u] = needsAssemble[u]
            /\ needsCompute'[u] = needsCompute[u]
            /\ assignment'[u] = assignment[u] /\ token'[u] = token[u]
            /\ eager'[u] = eager[u] /\ (Clean(u)' <=> Clean(u))
  BY <1>1, <1>2, <1>3 DEF TypeOK, Clean
<1>7. ~needsCompile'[t] => ~needsCompile[t] /\ assignment[t] = rhs
  BY <1>1, <1>2, <1>3 DEF TypeOK, NeedsNewKernel
<1>8. PendingDefined' /\ CompileDefined' /\ AssembledAllocated'
  BY <1>1, <1>3, <1>4, <1>6
     DEF Settled, PendingDefined, CompileDefined, AssembledAllocated
<1>9. FusedAgree'
  BY <1>1, <1>2, <1>3, <1>6, <1>7 DEF Settled, FusedAgree
<1>10. BufferPacked'
  BY <1>1, <1>3, <1>4, <1>6 DEF Settled, BufferPacked
<1>11. CompoundOwed'
  BY <1>1, <1>5, <1>6 DEF Settled, CompoundOwed
<1>12. LogicalIsEager'
  <2> SUFFICES ASSUME NEW u \in Tensors, Clean(u)'
               PROVE  Logical(u)' = eager'[u]
    BY DEF LogicalIsEager
  <2>1. CASE u = t
    BY <1>5, <1>6, <2>1 DEF Logical
  <2>2. CASE u # t
    <3>1. Logical(u) = eager[u]
      BY <1>1, <1>6, <2>2 DEF Settled, LogicalIsEager
    <3>2. QED
      BY <1>3, <1>5, <1>6, <2>2, <3>1 DEF Logical
  <2>3. QED
    BY <2>1, <2>2
<1>13. Requested'
  BY <1>3 DEF Requested, Idle
<1>14. Drawn'
  <2>1. clock \in Nat
    BY <1>1 DEF TypeOK
  <2>2. 0 .. clock \subseteq 0 .. clock + 1 /\ clock + 1 \notin 0 .. clock
    BY <2>1
  <2>3. ASSUME NEW u \in Tensors
        PROVE  storage[u] \subseteq 0 .. clock /\ buffer[u] \subseteq 0 .. clock
    BY <1>1 DEF Settled, Drawn
  <2>4. ASSUME NEW u \in Tensors
        PROVE  storage'[u] \subseteq 0 .. clock' /\ buffer'[u] \subseteq 0 .. clock'
    BY <1>3, <2>2, <2>3
  <2>5. storage'[t] # {token'[t]}
    BY <1>2, <1>3, <1>6, <2>2, <2>3
  <2>6. QED
    BY <1>1, <1>3, <1>5, <1>6, <2>4, <2>5 DEF Settled, Drawn
<1>15. QED
  BY <1>5, <1>8, <1>9, <1>10, <1>11, <1>12, <1>13, <1>14 DEF Settled
(***************************************************************************)
(* The client.                                                             *)
(***************************************************************************)
\* Nothing changes but the request and the stack.
LEMMA CallSettled ==
    ASSUME EagerInvariant, TypeOK', PendingAcyclic', NamedIsCurrent',
           CleanOperands', NEW op, NEW t, NEW rhs, NEW calls,
           Call(op, t, rhs, calls), NoRuns',
           op = "insert" => /\ ~needsCompute[t]
                            /\ neverPacked[t] => storage[t] = {},
           op = "insert" => t \in Tensors,
           op = "assign" => buffer[t] = {} /\ rhs.defined
    PROVE  Settled'
<1>1. TypeOK /\ Settled
  BY DEF EagerInvariant, Bookkeeping, TypeInvariant
<1>2. /\ client = Idle /\ agenda = <<>>
      /\ client'.op = op /\ client'.t = t /\ client'.rhs = rhs
      /\ UNCHANGED <<neverPacked, needsPack, needsCompile, needsAssemble,
                     needsCompute, fused, buffer, storage, allocated,
                     assignment, kernel, clock, token, want, eager>>
      /\ \A u : Clean(u)' <=> Clean(u)
  BY <1>1 DEF Call, TypeOK, flags, data, code, ghosts, Clean
<1>3. /\ \A u \in Tensors : Owed(u) <=> needsCompute[u]
      /\ \A u \in Tensors : Clean(u) => (Owed(u)' <=> needsCompute[u])
      /\ OwedAcyclic' /\ OwedNamed'
  BY <1>1, <1>2, IdleOwed, IdleOwedNext, IdleKeeps
<1>4. /\ PendingDefined' /\ CompileDefined' /\ AssembledAllocated'
      /\ BufferPacked' /\ FusedAgree'
  BY <1>1, <1>2 DEF Settled, PendingDefined, CompileDefined,
     AssembledAllocated, BufferPacked, FusedAgree
<1>5. CompoundOwed' /\ Drawn'
  BY <1>1, <1>2, <1>3 DEF Settled, CompoundOwed, Drawn
<1>6. LogicalIsEager'
  BY <1>1, <1>2, <1>3 DEF Settled, LogicalIsEager, Logical
<1>7. Requested'
  BY <1>2, <1>3 DEF Requested
<1>8. QED
  BY <1>3, <1>4, <1>5, <1>6, <1>7 DEF Settled

\* The calls that precede a mutation compile and compute nothing themselves.
LEMMA MutationOrderly ==
    ASSUME EagerInvariant, NEW t \in Tensors, NEW op \in {"insert", "assign"},
           NEW rhs, Call(op, t, rhs, SyncDependents(t))
    PROVE  Orderly' /\ NoRuns'
<1>1. TypeOK
  BY DEF EagerInvariant, Bookkeeping, TypeInvariant
<1>2. PICK ops \in Seq(Tensors) : ops = dependents[t]
  BY <1>1 DEF TypeOK
<1>3. PICK front : front = SyncAll(ops) \o <<Do("clearDependents", t)>>
  OBVIOUS
<1>4. agenda' = front /\ client'.op = op
  BY <1>2, <1>3 DEF Call, SyncDependents
<1>5. "clearDependents" \in Calls
  BY DEF Calls
<1>6. /\ Len(front) = Len(ops) + 1
      /\ \A i \in 1 .. Len(ops) : front[i] = Do("syncValues", ops[i])
      /\ front[Len(ops) + 1] = Do("clearDependents", t)
  BY <1>3, <1>5, SyncAllThen
<1>7. Len(ops) \in Nat
  BY LenProperties
<1>8. \A i \in 1 .. Len(front) : i \in 1 .. Len(ops) \/ i = Len(ops) + 1
  BY <1>6, <1>7
<1>9. \A c, u : Do(c, u).call = c /\ Do(c, u).by = Do(c, u).t
  BY DEF Do
<1>10. ASSUME NEW i \in 1 .. Len(agenda')
       PROVE  /\ agenda'[i].call \in {"syncValues", "clearDependents"}
              /\ agenda'[i].by = agenda'[i].t
  <2>1. CASE i \in 1 .. Len(ops)
    BY <1>4, <1>6, <1>9, <2>1
  <2>2. CASE i = Len(ops) + 1
    BY <1>4, <1>6, <1>9, <2>2
  <2>3. QED
    BY <1>4, <1>8, <2>1, <2>2
<1>11. \A i \in 1 .. Len(agenda') : agenda'[i].call \notin Stages
  BY <1>10 DEF Stages
<1>12. /\ ByIsSelf' /\ CompileFirst' /\ AssembleFirst' /\ ComputeReady'
       /\ CallAssembleReady' /\ CallComputeReady'
  BY <1>10, <1>11 DEF ByIsSelf, CompileFirst, AssembleFirst, ComputeReady,
     CallAssembleReady, CallComputeReady, Stages
<1>13. Descending' /\ Served' /\ NoRuns'
  BY <1>11 DEF Descending, Served, NoRuns, Stages
<1>14. ReadServed'
  BY <1>4 DEF ReadServed, Reads
<1>15. QED
  BY <1>12, <1>13, <1>14 DEF Orderly

\* at() and the iterators synchronize the tensor they read.
LEMMA ReadOrderly ==
    ASSUME EagerInvariant, NEW t \in Tensors, At(t) \/ Iterate(t)
    PROVE  Orderly' /\ NoRuns'
<1>1. /\ client'.t = t
      /\ \/ agenda' = <<Do("syncValues", t), Do("syncValues", t)>>
         \/ agenda' = <<Do("syncValues", t)>>
  BY DEF At, Iterate, Call
<1>2. /\ \A i \in 1 .. Len(agenda') : agenda'[i] = Do("syncValues", t)
      /\ 1 \in 1 .. Len(agenda')
  BY <1>1
<1>3. /\ Do("syncValues", t).call = "syncValues"
      /\ Do("syncValues", t).t = t /\ Do("syncValues", t).by = t
  BY DEF Do
<1>4. \A i \in 1 .. Len(agenda') : agenda'[i].call \notin Stages
                                   /\ agenda'[i].by = agenda'[i].t
  BY <1>2, <1>3 DEF Stages
<1>5. /\ ByIsSelf' /\ CompileFirst' /\ AssembleFirst' /\ ComputeReady'
      /\ CallAssembleReady' /\ CallComputeReady'
  BY <1>4 DEF ByIsSelf, CompileFirst, AssembleFirst, ComputeReady,
     CallAssembleReady, CallComputeReady, Stages
<1>6. Descending' /\ Served' /\ NoRuns'
  BY <1>4 DEF Descending, Served, NoRuns, Stages
<1>7. ReadServed'
  BY <1>1, <1>2, <1>3 DEF ReadServed, Packs, Has, Will
<1>8. QED
  BY <1>5, <1>6, <1>7 DEF Orderly
\* The stages of one tensor, compiled first unless there is but one stage.
LEMMA StagesOrderly ==
    ASSUME NEW t, NEW calls, agenda' = calls, client'.op \notin Reads,
           \A i \in 1 .. Len(calls) :
              /\ calls[i].by = t /\ calls[i].t = t
              /\ calls[i].call \in {"compile", "assemble", "compute"}
              /\ i = 1 \/ (Has(calls[1], "compile", t)
                              /\ calls[i].call # "compile")
              /\ calls[i].call = "assemble" =>
                    /\ i = 1 \/ i = 2
                    /\ Clean(t)' /\ needsAssemble'[t] => needsCompute'[t]
              /\ calls[i].call = "compute" =>
                    (Clean(t)' /\ needsCompute'[t] =>
                        \/ Room(t)'
                        \/ \E k \in 1 .. i - 1 : Has(calls[k], "assemble", t))
    PROVE  Orderly' /\ NoRuns'
<1>1. NoRuns'
  BY DEF NoRuns
<1>2. ByIsSelf' /\ CompileFirst'
  BY <1>1 DEF ByIsSelf, CompileFirst
<1>3. \A i \in 1 .. Len(calls) : Compiled(i)'
  BY <1>1 DEF Compiled
<1>4. AssembleFirst'
  BY <1>3 DEF AssembleFirst, Clean
<1>5. ComputeReady'
  BY <1>3 DEF ComputeReady, Assembling, Room, Clean
<1>6. CallAssembleReady' /\ CallComputeReady' /\ Descending' /\ Served'
  BY DEF CallAssembleReady, CallComputeReady, Descending, Served
<1>7. ReadServed'
  BY DEF ReadServed
<1>8. QED
  BY <1>1, <1>2, <1>4, <1>5, <1>6, <1>7 DEF Orderly

\* A client that calls the stages in order assembles a tensor only to compute
\* it, and computes it with room for the result (tensor.cpp:588-855).
LEMMA StageCalls ==
    ASSUME Usage = {}, EagerInvariant, NEW t \in Tensors,
           Evaluate(t) \/ CompileTensor(t) \/ AssembleTensor(t)
              \/ ComputeTensor(t)
    PROVE  Orderly' /\ NoRuns'
<1>1. TypeOK /\ Settled
  BY DEF EagerInvariant, Bookkeeping, TypeInvariant
<1>2. /\ client = Idle /\ agenda = <<>>
      /\ client'.op \in {"evaluate", "compile", "assemble", "compute"}
      /\ UNCHANGED <<needsAssemble, needsCompute, fused, allocated, assignment>>
      /\ Clean(t)' <=> Clean(t)
  BY <1>1 DEF Evaluate, CompileTensor, AssembleTensor, ComputeTensor, Call,
     TypeOK, flags, data, code, ghosts, Clean
<1>3. client'.op \notin Reads
  BY <1>2 DEF Reads
<1>4. Owed(t) <=> needsCompute[t]
  BY <1>1, <1>2, IdleOwed
<1>5. \A c, u : /\ Do(c, u).call = c /\ Do(c, u).t = u /\ Do(c, u).by = u
                /\ Has(Do(c, u), c, u)
  BY DEF Do, Has
<1>6. Clean(t) /\ needsCompute[t] /\ ~needsAssemble[t] => Room(t)
  BY <1>1 DEF Settled, PendingDefined, AssembledAllocated, Room
<1>7. Room(t) => Room(t)'
  BY <1>2 DEF Room
<1>8. CASE Evaluate(t) /\ assignment[t].compound
  <2>1. PICK calls : calls = <<Do("compile", t), Do("compute", t)>>
    OBVIOUS
  <2>2. agenda' = calls /\ (fused[t] \/ allocated[t])
    BY <1>8, <2>1 DEF Evaluate, Call
  <2>3. Room(t)'
    BY <1>7, <1>8, <2>2 DEF Room
  <2>4. /\ Len(calls) = 2 /\ calls[1] = Do("compile", t)
        /\ calls[2] = Do("compute", t)
        /\ \A i \in 1 .. Len(calls) : i = 1 \/ i = 2
    BY <2>1
  <2>5. \A i \in 1 .. Len(calls) :
              /\ calls[i].by = t /\ calls[i].t = t
              /\ calls[i].call \in {"compile", "assemble", "compute"}
              /\ i = 1 \/ (Has(calls[1], "compile", t)
                              /\ calls[i].call # "compile")
              /\ calls[i].call # "assemble"
    BY <1>5, <2>4
  <2>6. QED
    BY <1>3, <2>2, <2>3, <2>5, StagesOrderly
<1>9. CASE Evaluate(t) /\ ~assignment[t].compound
  <2>1. PICK calls : calls = <<Do("compile", t), Do("assemble", t),
                               Do("compute", t)>>
    OBVIOUS
  <2>2. agenda' = calls
    BY <1>9, <2>1 DEF Evaluate, Call
  <2>3. Clean(t)' /\ needsAssemble'[t] => needsCompute'[t]
    BY <1>1, <1>2, <1>4, <1>9 DEF Settled, CompoundOwed
  <2>4. /\ Len(calls) = 3 /\ calls[1] = Do("compile", t)
        /\ calls[2] = Do("assemble", t) /\ calls[3] = Do("compute", t)
        /\ \A i \in 1 .. Len(calls) : i = 1 \/ i = 2 \/ i = 3
    BY <2>1
  <2>5. \A i \in 1 .. Len(calls) :
              /\ calls[i].by = t /\ calls[i].t = t
              /\ calls[i].call \in {"compile", "assemble", "compute"}
              /\ i = 1 \/ (Has(calls[1], "compile", t)
                              /\ calls[i].call # "compile")
              /\ calls[i].call = "assemble" => i = 2
              /\ calls[i].call = "compute" => i = 3
    BY <1>5, <2>4
  <2>6. Has(calls[2], "assemble", t) /\ 2 \in 1 .. 3 - 1
    BY <1>5, <2>4
  <2>7. QED
    BY <1>3, <2>2, <2>3, <2>5, <2>6, StagesOrderly
<1>10. ASSUME NEW c \in {"compile", "assemble", "compute"},
              agenda' = <<Do(c, t)>>,
              c = "assemble" =>
                 (Clean(t)' /\ needsAssemble'[t] => needsCompute'[t]),
              c = "compute" => (Clean(t)' /\ needsCompute'[t] => Room(t)')
       PROVE  Orderly' /\ NoRuns'
  <2>1. PICK calls : calls = <<Do(c, t)>>
    OBVIOUS
  <2>2. /\ agenda' = calls
        /\ \A i \in 1 .. Len(calls) : i = 1 /\ calls[i] = Do(c, t)
    BY <1>10, <2>1
  <2>3. \A i \in 1 .. Len(calls) :
           i = 1 /\ calls[i].call = c /\ calls[i].t = t /\ calls[i].by = t
    BY <1>5, <2>2
  <2>4. \A i \in 1 .. Len(calls) :
           /\ calls[i].call \in {"compile", "assemble", "compute"}
           /\ calls[i].call = "assemble" =>
                 (Clean(t)' /\ needsAssemble'[t] => needsCompute'[t])
           /\ calls[i].call = "compute" =>
                 (Clean(t)' /\ needsCompute'[t] => Room(t)')
    <3> TAKE i \in 1 .. Len(calls)
    <3>1. calls[i].call = c
      BY <2>3
    <3>2. QED
      BY <1>10, <3>1
  <2>5. \A i \in 1 .. Len(calls) :
              /\ calls[i].by = t /\ calls[i].t = t
              /\ calls[i].call \in {"compile", "assemble", "compute"}
              /\ i = 1 \/ (Has(calls[1], "compile", t)
                              /\ calls[i].call # "compile")
              /\ calls[i].call = "assemble" =>
                    /\ i = 1 \/ i = 2
                    /\ Clean(t)' /\ needsAssemble'[t] => needsCompute'[t]
              /\ calls[i].call = "compute" =>
                    (Clean(t)' /\ needsCompute'[t] =>
                        \/ Room(t)'
                        \/ \E k \in 1 .. i - 1 : Has(calls[k], "assemble", t))
    <3> TAKE i \in 1 .. Len(calls)
    <3>1. i = 1 /\ calls[i].t = t /\ calls[i].by = t
      BY <2>3
    <3>2. QED
      BY <2>4, <3>1
  <2>6. agenda' = calls
    BY <2>2
  <2>7. QED
    BY <1>3, <2>5, <2>6, StagesOrderly
<1>11. CASE CompileTensor(t)
  BY <1>10, <1>11 DEF CompileTensor, Call
<1>12. CASE AssembleTensor(t)
  <2>1. agenda' = <<Do("assemble", t)>>
        /\ (needsAssemble'[t] => needsCompute'[t])
    BY <1>2, <1>12 DEF AssembleTensor, Call
  <2>2. QED
    BY <1>10, <2>1
<1>13. CASE ComputeTensor(t)
  <2>1. agenda' = <<Do("compute", t)>> /\ (~needsAssemble[t] \/ fused[t])
    BY <1>13 DEF ComputeTensor, Call
  <2>2. Clean(t)' /\ needsCompute'[t] => Room(t)'
    BY <1>2, <1>6, <1>7, <2>1 DEF Room
  <2>3. QED
    BY <1>10, <2>1, <2>2
<1>14. QED
  BY <1>8, <1>9, <1>11, <1>12, <1>13
\* pack(), setAssembleWhileCompute() and setStorage() on an idle engine.
LEMMA DirectSettled ==
    ASSUME Usage = {}, EagerInvariant, TypeOK', PendingAcyclic',
           NamedIsCurrent', CleanOperands', NEW t \in Tensors,
           PackTensor(t) \/ SetAssembleWhileCompute(t) \/ SetStorage(t)
    PROVE  Orderly' /\ Settled'
<1>1. TypeOK /\ PackedOrPending /\ Settled
  BY DEF EagerInvariant, Bookkeeping, TypeInvariant
<1>2. /\ client = Idle /\ agenda = <<>> /\ client' = Idle /\ agenda' = <<>>
      /\ UNCHANGED <<needsCompile, needsAssemble, needsCompute, assignment,
                     kernel, token>>
      /\ \A u : Clean(u)' <=> Clean(u)
  BY <1>1 DEF PackTensor, Pack, SetAssembleWhileCompute, SetStorage, TypeOK,
     code, ghosts, Clean
<1>3. Orderly'
  BY <1>2, EmptyOrderly
<1>4. /\ \A u \in Tensors : Owed(u) <=> needsCompute[u]
      /\ \A u \in Tensors : Owed(u)' <=> needsCompute[u]
      /\ OwedAcyclic' /\ OwedNamed'
  BY <1>1, <1>2, IdleOwed, IdleOwedNext, IdleKeeps
<1>5. PendingDefined' /\ CompileDefined' /\ Requested'
  BY <1>1, <1>2 DEF Settled, PendingDefined, CompileDefined, Requested, Idle
<1>6. CompoundOwed'
  BY <1>1, <1>2, <1>4 DEF Settled, CompoundOwed
<1>7. CASE PackTensor(t)
  <2>1. /\ needsPack[t]
        /\ needsPack' = [needsPack EXCEPT ![t] = FALSE]
        /\ storage' = [storage EXCEPT ![t] = buffer[t] \cup
                          (IF neverPacked[t] THEN {} ELSE storage[t])]
        /\ buffer' = [buffer EXCEPT ![t] = {}]
        /\ allocated' = [allocated EXCEPT ![t] = TRUE]
        /\ neverPacked' = [neverPacked EXCEPT ![t] = FALSE]
        /\ UNCHANGED <<fused, clock, eager>>
    BY <1>7 DEF PackTensor, Pack, ghosts
  <2>2. ~needsCompute[t]
    BY <1>1, <2>1 DEF PackedOrPending
  <2>3. /\ neverPacked'[t] = FALSE /\ needsPack'[t] = FALSE
        /\ storage'[t] = buffer[t] \cup
                   (IF neverPacked[t] THEN {} ELSE storage[t])
        /\ buffer'[t] = {}
        /\ \A u \in Tensors \ {t} :
              /\ neverPacked'[u] = neverPacked[u] /\ needsPack'[u] = needsPack[u]
              /\ storage'[u] = storage[u] /\ buffer'[u] = buffer[u]
        /\ \A u \in Tensors : allocated[u] => allocated'[u]
    BY <1>1, <2>1 DEF TypeOK
  <2>4. AssembledAllocated' /\ BufferPacked' /\ FusedAgree'
    BY <1>1, <1>2, <2>1, <2>3
       DEF Settled, AssembledAllocated, BufferPacked, FusedAgree
  <2>5. LogicalIsEager'
    <3> SUFFICES ASSUME NEW u \in Tensors, Clean(u)
                 PROVE  Logical(u)' = eager[u]
      BY <1>2, <2>1 DEF LogicalIsEager
    <3>1. CASE u = t
      <4>1. Logical(u)' = storage'[u]
        BY <1>4, <2>2, <2>3, <3>1 DEF Logical
      <4>2. Logical(u) = storage'[u]
        BY <2>1, <2>3, <3>1 DEF Logical
      <4>3. QED
        BY <1>1, <4>1, <4>2 DEF Settled, LogicalIsEager
    <3>2. CASE u # t
      BY <1>1, <1>2, <1>4, <2>3, <3>2 DEF Settled, LogicalIsEager, Logical
    <3>3. QED
      BY <3>1, <3>2
  <2>6. Drawn'
    <3>1. \A u \in Tensors : storage'[u] \subseteq 0 .. clock
                             /\ buffer'[u] \subseteq 0 .. clock
      BY <1>1, <2>3 DEF Settled, Drawn
    <3>2. \A u \in Tensors : needsCompute[u] => storage'[u] = storage[u]
      BY <2>2, <2>3
    <3>3. QED
      BY <1>1, <1>2, <1>4, <2>1, <3>1, <3>2 DEF Settled, Drawn
  <2>7. QED
    BY <1>3, <1>4, <1>5, <1>6, <2>4, <2>5, <2>6 DEF Settled
<1>8. CASE SetAssembleWhileCompute(t)
  <2>1. /\ UNCHANGED <<neverPacked, needsPack, buffer, storage, allocated,
                       clock, eager>>
        /\ fused' = [fused EXCEPT ![t] = ~@]
        /\ ~(assignment[t].defined /\ ~needsCompile[t])
    BY <1>8 DEF SetAssembleWhileCompute, data, ghosts
  <2>2. FusedAgree'
    BY <1>1, <1>2, <2>1 DEF Settled, FusedAgree, TypeOK
  <2>3. AssembledAllocated' /\ BufferPacked'
    BY <1>1, <1>2, <2>1 DEF Settled, AssembledAllocated, BufferPacked
  <2>4. LogicalIsEager'
    BY <1>1, <1>2, <1>4, <2>1 DEF Settled, LogicalIsEager, Logical
  <2>5. Drawn'
    BY <1>1, <1>2, <1>4, <2>1 DEF Settled, Drawn
  <2>6. QED
    BY <1>3, <1>4, <1>5, <1>6, <2>2, <2>3, <2>4, <2>5 DEF Settled
<1>9. CASE SetStorage(t)
  <2>1. /\ ~needsCompute[t] /\ buffer[t] = {}
        /\ needsPack' = [needsPack EXCEPT ![t] = FALSE]
        /\ storage' = [storage EXCEPT ![t] = {clock + 1}]
        /\ allocated' = [allocated EXCEPT ![t] = TRUE]
        /\ eager' = [eager EXCEPT ![t] = {clock + 1}]
        /\ clock' = clock + 1
        /\ UNCHANGED <<neverPacked, fused, buffer>>
    BY <1>9 DEF SetStorage, Unsettled
  <2>2. /\ needsPack'[t] = FALSE /\ storage'[t] = {clock + 1}
        /\ eager'[t] = {clock + 1}
        /\ \A u \in Tensors \ {t} :
              /\ needsPack'[u] = needsPack[u] /\ storage'[u] = storage[u]
              /\ eager'[u] = eager[u]
        /\ \A u \in Tensors : allocated[u] => allocated'[u]
    BY <1>1, <2>1 DEF TypeOK
  <2>3. AssembledAllocated' /\ BufferPacked' /\ FusedAgree'
    BY <1>1, <1>2, <2>1, <2>2
       DEF Settled, AssembledAllocated, BufferPacked, FusedAgree
  <2>4. LogicalIsEager'
    <3> SUFFICES ASSUME NEW u \in Tensors, Clean(u)
                 PROVE  Logical(u)' = eager'[u]
      BY <1>2 DEF LogicalIsEager
    <3>1. CASE u = t
      <4>1. /\ needsPack'[u] = FALSE /\ needsCompute[u] = FALSE
            /\ storage'[u] = {clock + 1} /\ eager'[u] = {clock + 1}
        BY <1>1, <2>1, <2>2, <3>1 DEF TypeOK
      <4>2. ~Owed(u)'
        BY <1>4, <4>1
      <4>3. Logical(u)' = storage'[u]
        BY <4>1, <4>2 DEF Logical
      <4>4. QED
        BY <4>1, <4>3
    <3>2. CASE u # t
      <4>1. /\ needsPack'[u] = needsPack[u] /\ storage'[u] = storage[u]
            /\ eager'[u] = eager[u] /\ buffer'[u] = buffer[u]
            /\ neverPacked'[u] = neverPacked[u] /\ token'[u] = token[u]
        BY <1>2, <2>1, <2>2, <3>2
      <4>2. Owed(u)' <=> Owed(u)
        BY <1>4
      <4>3. Logical(u)' = Logical(u)
        BY <4>1, <4>2 DEF Logical
      <4>4. QED
        BY <1>1, <4>1, <4>3 DEF Settled, LogicalIsEager
    <3>3. QED
      BY <3>1, <3>2
  <2>5. Drawn'
    <3>1. clock \in Nat
      BY <1>1 DEF TypeOK
    <3>2. 0 .. clock \subseteq 0 .. clock + 1 /\ clock + 1 \in 0 .. clock + 1
      BY <3>1
    <3>3. ASSUME NEW u \in Tensors
          PROVE  storage[u] \subseteq 0 .. clock /\ buffer[u] \subseteq 0 .. clock
      BY <1>1 DEF Settled, Drawn
    <3>4. ASSUME NEW u \in Tensors
          PROVE  /\ storage'[u] \subseteq 0 .. clock'
                 /\ buffer'[u] \subseteq 0 .. clock'
      BY <2>1, <2>2, <3>2, <3>3
    <3>5. \A u \in Tensors : needsCompute[u] => storage'[u] = storage[u]
      BY <2>1, <2>2
    <3>6. QED
      BY <1>1, <1>2, <1>4, <3>4, <3>5 DEF Settled, Drawn
  <2>6. QED
    BY <1>3, <1>4, <1>5, <1>6, <2>3, <2>4, <2>5 DEF Settled
<1>10. QED
  BY <1>7, <1>8, <1>9
\* A method that returns, or a step of somebody else, changes no tensor.
LEMMA StillSettled ==
    ASSUME Settled, client' = client \/ client' = Idle,
           UNCHANGED <<flags, data, code, agenda, ghosts>>
    PROVE  Settled'
<1>1. /\ UNCHANGED <<neverPacked, needsPack, needsCompile, needsAssemble,
                     needsCompute, fused, buffer, storage, allocated,
                     assignment, kernel, agenda, clock, token, want, eager>>
      /\ \A t : Clean(t)' <=> Clean(t)
  BY DEF flags, data, code, ghosts, Clean
<1>2. \A t : Owed(t)' <=> Owed(t)
  BY <1>1 DEF Owed
<1>3. /\ PendingDefined' /\ CompileDefined' /\ AssembledAllocated'
      /\ BufferPacked' /\ FusedAgree'
  BY <1>1 DEF Settled, PendingDefined, CompileDefined, AssembledAllocated,
     BufferPacked, FusedAgree
<1>4. CompoundOwed' /\ OwedAcyclic' /\ OwedNamed' /\ Drawn'
  BY <1>1, <1>2 DEF Settled, CompoundOwed, OwedAcyclic, OwedNamed, Drawn
<1>5. LogicalIsEager'
  BY <1>1, <1>2 DEF Settled, LogicalIsEager, Logical
<1>6. Requested'
  BY <1>1, <1>2 DEF Settled, Requested, Idle
<1>7. QED
  BY <1>3, <1>4, <1>5, <1>6 DEF Settled

\* What the client asks for, it asks of an engine in order.
LEMMA ClientEager ==
    ASSUME Usage = {}, EagerInvariant, TypeOK', PendingAcyclic',
           NamedIsCurrent', CleanOperands', NEW t \in Tensors, Client(t)
    PROVE  Orderly' /\ Settled'
<1>1. TypeOK
  BY DEF EagerInvariant, Bookkeeping, TypeInvariant
<1>2. CASE Insert(t)
  <2>1. /\ Call("insert", t, Undefined, SyncDependents(t))
        /\ ~needsCompute[t]
        /\ neverPacked[t] => storage[t] = {}
    BY <1>2 DEF Insert
  <2>2. Orderly' /\ NoRuns'
    BY <2>1, MutationOrderly
  <2>3. Settled'
    BY <2>1, <2>2, CallSettled
  <2>4. QED
    BY <2>2, <2>3
<1>3. ASSUME NEW rhs \in Expressions, Assign(t, rhs)
      PROVE  Orderly' /\ Settled'
  <2>1. Call("assign", t, rhs, SyncDependents(t)) /\ buffer[t] = {}
    BY <1>3 DEF Assign
  <2>2. rhs.defined
    BY ExpressionsAssumption DEF Rhs
  <2>3. Orderly' /\ NoRuns'
    BY <2>1, MutationOrderly
  <2>4. Settled'
    BY <2>1, <2>2, <2>3, CallSettled
  <2>5. QED
    BY <2>3, <2>4
<1>4. CASE \/ At(t) \/ Iterate(t)
           \/ Evaluate(t) \/ CompileTensor(t) \/ AssembleTensor(t)
           \/ ComputeTensor(t)
  <2>1. Orderly' /\ NoRuns'
    BY <1>4, ReadOrderly, StageCalls
  <2>2. PICK op, calls : /\ op \in Methods \ {"insert", "assign"}
                         /\ Call(op, t, Undefined, calls)
    BY <1>4 DEF At, Iterate, Evaluate, CompileTensor, AssembleTensor,
       ComputeTensor, Methods
  <2>3. op # "insert" /\ op # "assign"
    BY <2>2
  <2>4. Settled'
    BY <2>1, <2>2, <2>3, CallSettled
  <2>5. QED
    BY <2>1, <2>4
<1>5. CASE PackTensor(t) \/ SetAssembleWhileCompute(t) \/ SetStorage(t)
  BY <1>5, DirectSettled
<1>6. QED
  BY <1>2, <1>3, <1>4, <1>5 DEF Client

\* Only an assignment that can be compiled, and reads clean tensors, makes
\* its tensor clean; nobody waits for that tensor any more.
LEMMA NextClean ==
    Bookkeeping /\ CleanCompilable /\ CleanOperands /\ [Next]_vars
        => CleanCompilable' /\ CleanOperands'
<1> SUFFICES ASSUME Bookkeeping, CleanCompilable, CleanOperands, [Next]_vars
             PROVE  CleanCompilable' /\ CleanOperands'
  OBVIOUS
<1>1. TypeInvariant
  BY DEF Bookkeeping
<1>2. CASE ~FinishAssign
  <2>1. /\ UNCHANGED <<assignment, spoiled>>
        /\ \A w \in Tensors : needsCompute'[w] => needsCompute[w]
    BY <1>1, <1>2, Quiet
  <2>2. QED
    BY <2>1 DEF CleanCompilable, CleanOperands, Clean, Waits
<1>3. CASE FinishAssign
  <2>1. client.t \in Tensors /\ Mutating /\ agenda = <<>>
    BY <1>1, <1>3, RequestType
       DEF FinishAssign, Returning, TypeInvariant, Methods, Mutating
  <2>2. /\ assignment' = [assignment EXCEPT ![client.t] = client.rhs]
        /\ needsCompute' = [needsCompute EXCEPT ![client.t] = TRUE]
        /\ spoiled' = [spoiled EXCEPT ![client.t] = Spoils(client.rhs)]
    BY <1>3 DEF FinishAssign
  <2>3. \A w \in Tensors : ~Waits(w, client.t)
    BY <2>1, NobodyWaits
  <2>4. client.t \notin client.rhs.operands
    BY <1>3 DEF Bookkeeping, NotItself, FinishAssign, Returning
  <2>5. /\ assignment'[client.t] = client.rhs
        /\ spoiled'[client.t] = Spoils(client.rhs)
        /\ \A t \in Tensors \ {client.t} :
              /\ assignment'[t] = assignment[t] /\ spoiled'[t] = spoiled[t]
              /\ needsCompute'[t] = needsCompute[t]
    BY <1>1, <2>1, <2>2 DEF TypeInvariant, TypeOK
  <2>6. CleanCompilable'
    <3> SUFFICES ASSUME NEW t \in Tensors, ~spoiled'[t], assignment'[t].defined
                 PROVE  assignment'[t].operands \notin Failing
      BY DEF CleanCompilable, Clean
    <3>1. CASE t = client.t
      BY <2>5, <3>1 DEF Spoils
    <3>2. CASE t # client.t
      BY <2>5, <3>2 DEF CleanCompilable, Clean
    <3>3. QED
      BY <3>1, <3>2
  <2>7. CleanOperands'
    <3> SUFFICES ASSUME NEW t \in Tensors, NEW u \in Tensors, ~spoiled'[t],
                        needsCompute'[t], u \in assignment'[t].operands
                 PROVE  ~spoiled'[u]
      BY DEF CleanOperands, Clean, Waits
    <3>1. CASE t = client.t
      <4>1. u \in client.rhs.operands /\ ~Spoils(client.rhs)
        BY <2>5, <3>1
      <4>2. u # client.t /\ ~spoiled[u]
        BY <2>4, <4>1 DEF Spoils
      <4>3. QED
        BY <2>5, <4>2
    <3>2. CASE t # client.t
      <4>1. Waits(t, u) /\ ~spoiled[t]
        BY <2>5, <3>2 DEF Waits
      <4>2. u # client.t
        BY <2>3, <4>1
      <4>3. ~spoiled[u]
        BY <4>1 DEF CleanOperands, Clean
      <4>4. QED
        BY <2>5, <4>2, <4>3
    <3>3. QED
      BY <3>1, <3>2
  <2>8. QED
    BY <2>6, <2>7
<1>4. QED
  BY <1>2, <1>3

\* The invariant is inductive.
LEMMA NextEagerInvariant ==
    ASSUME Usage = {}
    PROVE  EagerInvariant /\ [Next]_vars => EagerInvariant'
<1> SUFFICES ASSUME EagerInvariant, [Next]_vars PROVE EagerInvariant'
  OBVIOUS
<1>1. Bookkeeping /\ TypeInvariant /\ TypeOK /\ Settled
  BY DEF EagerInvariant, Bookkeeping, TypeInvariant
<1>2. Bookkeeping' /\ TypeOK'
  <2>1. Bookkeeping'
    BY <1>1, NextBookkeeping
  <2>2. QED
    BY <2>1 DEF Bookkeeping, TypeInvariant
<1>3. PendingAcyclic' /\ NamedIsCurrent'
  BY <1>1, NextAcyclic, NextNamedIsCurrent DEF EagerInvariant
<1>4. CompilableIsCurrent'
  BY <1>1, NextCompilableIsCurrent DEF EagerInvariant
<1>10. CleanCompilable' /\ CleanOperands'
  BY <1>1, NextClean DEF EagerInvariant
<1> SUFFICES Orderly' /\ Settled'
  BY <1>2, <1>3, <1>4, <1>10 DEF EagerInvariant
<1>5. CASE Internal /\ agenda # <<>>
  BY <1>5, StackOwes, StackSettled
<1>6. CASE Internal /\ agenda = <<>>
  <2>1. FinishInsert \/ FinishAssign \/ Return
    BY <1>6 DEF Executing, Internal, SyncPack, SyncCompute, SyncNothing,
       CompileUndefined, CompileRejects, CompileAlready, CompileKernel,
       CompileThrows,
       RunUncompiled, AssembleAlready, AssembleOperands, CallAssemble,
       ComputeAlready, ComputeOperands, CallCompute, CallMissing,
       RemoveDependent, ClearDependents
  <2>2. agenda' = <<>> /\ client' = Idle
    BY <1>6, <2>1 DEF FinishInsert, FinishAssign, Return
  <2>3. Orderly'
    BY <2>2, EmptyOrderly
  <2>4. ASSUME Return PROVE Settled'
    BY <1>1, <2>4, StillSettled DEF Return
  <2>5. Settled'
    BY <1>2, <1>3, <1>10, <2>1, <2>4, InsertSettled, AssignSettled
  <2>6. QED
    BY <2>3, <2>5
<1>7. CASE \E t \in Tensors : Client(t)
  BY <1>2, <1>3, <1>7, <1>10, ClientEager
<1>8. CASE UNCHANGED vars
  <2>1. /\ UNCHANGED <<flags, data, code, agenda, ghosts>>
        /\ client' = client
    BY <1>8 DEF vars
  <2>2. Settled'
    BY <1>1, <2>1, StillSettled
  <2>3. /\ UNCHANGED <<needsPack, needsCompile, needsAssemble, needsCompute,
                       fused, allocated, assignment, agenda, client, token>>
        /\ \A t : Clean(t)' <=> Clean(t)
    BY <2>1 DEF flags, data, code, ghosts, Clean
  <2>4. \A i : Compiled(i)' <=> Compiled(i)
    BY <2>3 DEF Compiled, NoRuns
  <2>5. /\ ByIsSelf' /\ CompileFirst' /\ AssembleFirst' /\ ComputeReady'
        /\ CallAssembleReady' /\ CallComputeReady'
    BY <2>3, <2>4 DEF EagerInvariant, Orderly, ByIsSelf, CompileFirst, NoRuns,
       AssembleFirst, ComputeReady, CallAssembleReady, CallComputeReady,
       RunReady, Room
  <2>6. Descending' /\ Served' /\ ReadServed'
    BY <2>3 DEF EagerInvariant, Orderly, Descending, Works, Served, ReadServed
  <2>7. QED
    BY <2>2, <2>5, <2>6 DEF Orderly
<1>9. QED
  BY <1>5, <1>6, <1>7, <1>8 DEF Next
\* A program that has only built its tensors owes nothing.
LEMMA InitEagerInvariant == Init => EagerInvariant
<1> SUFFICES ASSUME Init PROVE EagerInvariant
  OBVIOUS
<1>1. Bookkeeping /\ PendingAcyclic /\ NamedIsCurrent /\ TypeOK
  BY InitBookkeeping DEF Bookkeeping, TypeInvariant
<1>2. CompilableIsCurrent
  BY DEF Init, CompilableIsCurrent, Undefined
<1>3. agenda = <<>> /\ client = Idle /\ \A i \in 1 .. Len(agenda) : FALSE
  BY EmptySeq DEF Init
<1>4. Orderly
  BY <1>3 DEF Orderly, ByIsSelf, CompileFirst, AssembleFirst, ComputeReady,
     CallAssembleReady, CallComputeReady, Descending, Served, ReadServed,
     Reads, Idle
<1>5. /\ clock = 0
      /\ \A t \in Tensors :
            /\ neverPacked[t] = TRUE /\ needsPack[t] = TRUE
            /\ ~needsCompile[t] /\ ~needsAssemble[t]
            /\ needsCompute[t] = FALSE
            /\ ~assignment[t].defined /\ buffer[t] = {} /\ storage[t] = {}
            /\ allocated[t] = FALSE /\ token[t] = 0 /\ eager[t] = {}
  BY DEF Init, Undefined
<1>6. \A t \in Tensors : ~Owed(t)
  BY <1>1, <1>3, <1>5, IdleOwed
<1>7. /\ PendingDefined /\ CompileDefined /\ BufferPacked /\ FusedAgree
      /\ CleanCompilable /\ CleanOperands
  BY <1>5 DEF PendingDefined, CompileDefined, BufferPacked, FusedAgree,
     CleanCompilable, CleanOperands, Waits
<1>8. AssembledAllocated
  BY <1>5 DEF AssembledAllocated
<1>9. LogicalIsEager
  BY <1>5 DEF LogicalIsEager, Logical
<1>10. CompoundOwed /\ OwedAcyclic /\ OwedNamed /\ Drawn
  BY <1>5, <1>6 DEF CompoundOwed, OwedAcyclic, OwedNamed, Drawn
<1>11. Requested
  BY <1>3 DEF Requested, Idle
<1>12. QED
  BY <1>1, <1>2, <1>4, <1>7, <1>8, <1>9, <1>10, <1>11
     DEF EagerInvariant, Settled

(***************************************************************************)
(* The theorems.                                                           *)
(***************************************************************************)
\* The invariant holds in every reachable state: for a client that follows
\* no risky pattern the flags, the call stack and the storages of
\* tensor.cpp:500-855 always fit together, as far as clean tensors go.
THEOREM EagerInvariantHolds ==
    ASSUME Usage = {} PROVE Spec => []EagerInvariant
<1>1. EagerInvariant /\ [Next]_vars => EagerInvariant'
  BY NextEagerInvariant
<1>2. QED
  BY <1>1, InitEagerInvariant, PTL DEF Spec

\* When every assignment can be compiled, every tensor is clean.
AllClean == \A t \in Tensors : Clean(t)
LEMMA AllCleanHolds ==
    ASSUME Failing = {} PROVE Spec => []AllClean
<1>1. Init => TypeInvariant /\ AllClean
  BY InitTypeInvariant DEF Init, AllClean, Clean
<1>2. TypeInvariant /\ AllClean /\ [Next]_vars => AllClean'
  <2> SUFFICES ASSUME TypeInvariant, AllClean, [Next]_vars PROVE AllClean'
    OBVIOUS
  <2>1. CASE ~FinishAssign
    BY <2>1, Quiet DEF AllClean, Clean
  <2>2. CASE FinishAssign
    <3>1. client.rhs \in Assignments
      BY <2>2, RequestType DEF FinishAssign, Returning, TypeInvariant, Methods
    <3>2. client.rhs.operands \subseteq Tensors
      <4>1. CASE client.rhs \in Rhs
        BY <4>1 DEF Rhs
      <4>2. CASE client.rhs = Undefined
        BY <4>2 DEF Undefined, NoOperands
      <4>3. QED
        BY <3>1, <4>1, <4>2 DEF Assignments
    <3>3. ~Spoils(client.rhs)
      BY <3>2 DEF Spoils, AllClean, Clean
    <3>4. spoiled' = [spoiled EXCEPT ![client.t] = Spoils(client.rhs)]
      BY <2>2 DEF FinishAssign
    <3>5. QED
      BY <3>3, <3>4 DEF AllClean, Clean, TypeInvariant, TypeOK
  <2>3. QED
    BY <2>1, <2>2
<1>3. TypeInvariant /\ [Next]_vars => TypeInvariant'
  BY NextTypeInvariant
<1>4. QED
  BY <1>1, <1>2, <1>3, PTL DEF Spec

\* A read of a clean tensor finds nothing left to do.
LEMMA ReadIsDone ==
    ASSUME EagerInvariant, Returning("at") \/ Returning("iterate"),
           Clean(client.t)
    PROVE  storage[client.t] = eager[client.t]
<1>1. TypeOK
  BY DEF EagerInvariant, Bookkeeping, TypeInvariant
<1>2. agenda = <<>> /\ client.op \in {"at", "iterate"}
  BY DEF Returning
<1>3. client.t \in Tensors
  BY <1>1, <1>2, RequestType DEF Methods
<1>4. \A i \in 1 .. Len(agenda) : FALSE
  BY <1>2, EmptySeq
<1>5. ~needsPack[client.t] /\ ~needsCompute[client.t]
  BY <1>2, <1>4 DEF EagerInvariant, Orderly, ReadServed, Reads
<1>6. ~Owed(client.t)
  BY <1>1, <1>2, <1>3, <1>5, IdleOwed
<1>7. Logical(client.t) = storage[client.t]
  BY <1>5, <1>6 DEF Logical
<1>8. QED
  BY <1>3, <1>7 DEF EagerInvariant, Settled, LogicalIsEager

\* A compilation that throws, out of whatever chain of synchronizations, and
\* the stale module a later read then runs, harm only what was made from the
\* failing assignment: a read of any other tensor returns what it would
\* return had nothing been delayed (tensor.cpp:588-661, 714-720).
THEOREM FailureIsIsolatedHolds ==
    ASSUME Usage = {} PROVE Spec => []FailureIsIsolated
<1>1. EagerInvariant => FailureIsIsolated
  BY ReadIsDone DEF FailureIsIsolated, Clean
<1>2. QED
  BY <1>1, EagerInvariantHolds, PTL

\* at() and the iterators return what they would return had nothing ever
\* been delayed: syncValues() packs and computes all that the tensor, and
\* whatever it was assigned from, still owed (tensor.cpp:667-680).
THEOREM ReadIsEagerHolds ==
    ASSUME Usage = {}, Failing = {} PROVE Spec => []ReadIsEager
<1>1. EagerInvariant /\ AllClean => ReadIsEager
  <2> SUFFICES ASSUME EagerInvariant, AllClean,
                      Returning("at") \/ Returning("iterate")
               PROVE  storage[client.t] = eager[client.t]
    BY DEF ReadIsEager
  <2>1. client.t \in Tensors
    BY RequestType
       DEF EagerInvariant, Bookkeeping, TypeInvariant, Returning, Methods
  <2>2. QED
    BY <2>1, ReadIsDone DEF AllClean
<1>2. QED
  BY <1>1, EagerInvariantHolds, AllCleanHolds, PTL

\* A compute function is only called with arrays to write into, and agrees
\* with its tensor on who allocates them (tensor.cpp:790-855).
THEOREM ComputeHasSpaceHolds ==
    ASSUME Usage = {}, Failing = {} PROVE Spec => []ComputeHasSpace
<1>1. EagerInvariant /\ AllClean => ComputeHasSpace
  <2> SUFFICES ASSUME EagerInvariant, AllClean, Executing("callCompute")
               PROVE  kernel[self].fused = fused[self] /\ HasSpace(self)
    BY DEF ComputeHasSpace
  <2>1. TypeOK /\ agenda # <<>>
    BY DEF EagerInvariant, Bookkeeping, TypeInvariant, Executing
  <2>2. /\ self \in Tensors /\ Head(agenda) = agenda[1] /\ agenda[1].t = self
        /\ 1 \in 1 .. Len(agenda)
    <3>1. Len(agenda) \in Nat \ {0} /\ Head(agenda) = agenda[1]
      BY <2>1, HeadTailProperties, EmptySeq, LenProperties DEF TypeOK
    <3>2. QED
      BY <2>1, <3>1, StackType DEF self
  <2>3. RunReady(self)
    BY <2>2 DEF EagerInvariant, Orderly, CallComputeReady, Executing, AllClean
  <2>4. kernel[self].fused = fused[self]
    BY <2>2, <2>3 DEF RunReady, EagerInvariant, Settled, FusedAgree
  <2>5. QED
    BY <2>3, <2>4 DEF RunReady, Room, HasSpace
<1>2. QED
  BY <1>1, EagerInvariantHolds, AllCleanHolds, PTL

\* No assignment is computed twice, because compute() lowers its flag before
\* anything it calls can come back to the tensor (tensor.cpp:811-832).
THEOREM ComputedOnceHolds ==
    ASSUME Usage = {}, Failing = {} PROVE Spec => ComputedOnce
<1>1. EagerInvariant /\ AllClean /\ agenda # <<>>
         /\ Head(agenda).call = "callCompute"
         => storage[self] # {token[self]}
  <2> SUFFICES ASSUME EagerInvariant, AllClean, agenda # <<>>,
                      Executing("callCompute")
               PROVE  storage[self] # {token[self]}
    BY DEF Executing
  <2>1. self \in Tensors
    BY StackType DEF EagerInvariant, Bookkeeping, TypeInvariant
  <2>2. QED
    BY <2>1, OperandsDone DEF EagerInvariant, Settled, Drawn, AllClean
<1>2. QED
  BY <1>1, EagerInvariantHolds, AllCleanHolds, PTL DEF ComputedOnce

\* What the tensors are worth is what they would be worth had nothing been
\* delayed.
LEMMA ValueIsEager ==
    ASSUME EagerInvariant, AllClean
    PROVE  [t \in Tensors |-> Logical(t)] = eager
<1>1. eager = [t \in Tensors |-> eager[t]]
  BY DEF EagerInvariant, Bookkeeping, TypeInvariant, TypeOK
<1>2. QED
  BY <1>1 DEF EagerInvariant, Settled, LogicalIsEager, AllClean

\* Every step is a mutation that takes effect at once, or invisible.
LEMMA NextEager ==
    ASSUME EagerInvariant, [Next]_vars
    PROVE  \/ UNCHANGED <<eager, clock>>
           \/ \E t \in Tensors :
                 /\ clock < Clock /\ clock' = clock + 1
                 /\ \/ eager' = [eager EXCEPT ![t] = @ \cup {clock + 1}]
                    \/ eager' = [eager EXCEPT ![t] = {clock + 1}]
<1>1. TypeInvariant
  BY DEF EagerInvariant, Bookkeeping
<1>2. CASE FinishInsert \/ FinishAssign
  <2>1. client.t \in Tensors
    BY <1>1, <1>2, RequestType
       DEF FinishInsert, FinishAssign, Returning, Methods, TypeInvariant
  <2>2. clock < Clock
    BY <1>1, <1>2
       DEF FinishInsert, FinishAssign, Returning, TypeInvariant, ClockRoom
  <2>3. QED
    BY <1>2, <2>1, <2>2 DEF FinishInsert, FinishAssign
<1>3. CASE \E t \in Tensors : SetStorage(t)
  BY <1>3 DEF SetStorage
<1>4. CASE /\ ~FinishInsert /\ ~FinishAssign
           /\ ~ \E t \in Tensors : SetStorage(t)
  <2>1. eager' = eager
    BY <1>1, <1>4, Quiet
  <2>2. clock' = clock
    BY <1>4 DEF Next, Internal, SyncPack, SyncCompute, SyncNothing,
       CompileUndefined, CompileRejects, CompileAlready, CompileKernel,
       CompileThrows,
       RunUncompiled, AssembleAlready, AssembleOperands, CallAssemble,
       ComputeAlready, ComputeOperands, CallCompute, CallMissing,
       RemoveDependent, ClearDependents, Return, Client, Insert, Assign, At,
       Iterate, Evaluate, CompileTensor, AssembleTensor, ComputeTensor,
       PackTensor, Pack, SetAssembleWhileCompute, Call, vars, ghosts
  <2>3. QED
    BY <2>1, <2>2
<1>5. QED
  BY <1>2, <1>3, <1>4

\* The engine implements tensors that are never delayed: whatever the client
\* mixes of inserts, assignments, reads, explicit stages and setStorage, an
\* insert or an assignment takes effect in one step and packing, compiling,
\* assembling, computing and synchronizing are invisible (tensor.cpp:500-855).
THEOREM ImplementsEagerHolds ==
    ASSUME Usage = {}, Failing = {} PROVE Spec => ImplementsEager
<1>1. Init => Eager!Init
  <2> SUFFICES ASSUME Init PROVE Eager!Init
    OBVIOUS
  <2>1. [t \in Tensors |-> Logical(t)] = eager
    BY InitEagerInvariant, ValueIsEager DEF Init, AllClean, Clean
  <2>2. QED
    BY <2>1 DEF Init, Eager!Init
<1>2. EagerInvariant /\ EagerInvariant' /\ AllClean /\ AllClean' /\ [Next]_vars
         => [Eager!Next]_(Eager!vars)
  <2> SUFFICES ASSUME EagerInvariant, EagerInvariant', AllClean, AllClean',
                      [Next]_vars
               PROVE  [Eager!Next]_(Eager!vars)
    OBVIOUS
  <2>1. [t \in Tensors |-> Logical(t)] = eager
    BY ValueIsEager
  <2>2. [t \in Tensors |-> Logical(t)]' = eager'
    <3>1. eager' = [t \in Tensors |-> eager'[t]]
      BY DEF EagerInvariant, Bookkeeping, TypeInvariant, TypeOK
    <3>2. QED
      BY <3>1 DEF EagerInvariant, Settled, LogicalIsEager, AllClean
  <2>3. CASE UNCHANGED <<eager, clock>>
    BY <2>1, <2>2, <2>3 DEF Eager!vars
  <2>4. ASSUME NEW t \in Tensors, clock < Clock, clock' = clock + 1,
               \/ eager' = [eager EXCEPT ![t] = @ \cup {clock + 1}]
               \/ eager' = [eager EXCEPT ![t] = {clock + 1}]
        PROVE  Eager!Next
    <3>1. Eager!Insert(t) \/ Eager!Assign(t)
      BY <2>1, <2>2, <2>4 DEF Eager!Insert, Eager!Assign
    <3>2. QED
      BY <3>1 DEF Eager!Next
  <2>5. QED
    BY <2>3, <2>4, NextEager
<1>3. QED
  BY <1>1, <1>2, EagerInvariantHolds, AllCleanHolds, PTL
     DEF Spec, ImplementsEager, Eager!Spec
=============================================================================
