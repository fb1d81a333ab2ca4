# A TLA+ development of zoomzoomtaco

The repository is taco, a compiler from tensor index notation to loops, with a second
back end, PochiVM, which runs the loops in a copy-and-patch interpreter instead of handing
C to a compiler. This directory holds specifications of the parts of it that keep state,
the model-checking instances for them, and proofs.

Paths are relative to the repository (`src/` is its own directory of that name).

## Inventory

| Component | State it keeps | Operations | What is hard, and what makes it correct |
|---|---|---|---|
| Delayed-evaluation engine, `src/tensor.cpp`, `include/taco/tensor.h` | per tensor: coordinate buffer, packed storage, one assignment, one compiled module, five flags (`neverPacked`, `needsPack`, `needsCompile`, `needsAssemble`, `needsCompute`), `assembleWhileCompute`, the list of dependents | `insert`, assignment through `Access`, `operator=`, `at`, iteration, `pack`, `compile`, `assemble`, `compute`, `evaluate`, `setStorage`, `setAssembleWhileCompute` | The methods of different tensors call each other recursively. A read must return what it would return had nothing been delayed; an operand may only change once its dependents are computed; the recursion must end; exceptions in the middle must not leave lies in the flags. |
| Code-generation memory, `PochiVM/pochivm/global_codegen_memory_pool.h`, `codegen_arena_allocator.h` | a lock-free queue of free chunks, an atomic approximate count, per thread an arena: linked list of chunks and a bump pointer | get and free a chunk, allocate, reset | Queue and count are updated in two steps by many threads; a chunk is handed over while its list link is still needed; enqueue and munmap may fail. |
| Coordinate buffer, packing, iterators, `src/tensor.cpp`, `include/taco/tensor.h` | per tensor: the buffer's bytes and how many are used, two flags, the storage; per iterator: a chunk and a position; global: the width the sort's comparator reads | `insert`, `reserve`, `pack`, reinsertion, `const_iterator` | Lengths and used parts are separate numbers and their difference is unsigned; packing again must add, not replace; threads share the comparator's global. |
| Helper-function cache, `src/tensor.cpp:922-991` | global vector under a mutex | look up, compile, append | Look-up and append are two critical sections. |
| Kernel modules, `src/codegen/module.cpp`, `codegen_pochi.cpp`, `src/index_notation/kernel.cpp` | functions, source text, library handle, table of interpreter functions; a global that selects the back end | `addFunction`, `compile`, `callFuncPacked`, `setSource` | The back end is asked at three moments; a second compilation would keep the first one's functions; files of several threads are in one directory. |
| Merge lattices, `src/lower/merge_lattice.cpp` | immutable points | build, simplify, sub-lattice, exactness | Every point where the expression is not zero must be visited once, although points are removed as optimizations. |
| Lowering, `src/lower/lowerer_impl_imperative.cpp` | per call: loops under construction | `lower` | Which iterators a loop tests, loads, compares and advances are four different subsets; each relies on facts about the others. |
| Scheduling, `src/index_notation/transformations.cpp`, `provenance_graph.cpp` | a graph of derived index variables | split, divide, fuse, pos, bound, precompute | The derived variables must cover the iteration space exactly once. |
| Index notation, IR, simplifier, parsers | immutable trees | rewrites | Pure functions. |
| Code generators, `src/codegen/*` | the text or AST being emitted | one visitor per node | A translation, no protocol. |
| Storage and files, `src/storage/` | reference-counted arrays | read, write, wrap | Who frees an array. |
| Names and environment, `src/util/` | counters per prefix | `getUniqueName` | Names of two prefixes may meet. |
| PochiVM fast interpreter, `PochiVM/fastinterp/fastinterp_operand_stack.h`, `PochiVM/pochivm/*_fastinterp.cpp` | the frame planner, two operand stacks, spill decisions left in the AST | two passes over a function body | The second pass relies on what the first found in a different frame; the generated code has no checks. |
| PochiVM scoped variables, `PochiVM/pochivm/scoped_variable_manager*` | stack of scopes, path of destructor blocks, break and continue targets, catch block | one handler per AST node that opens, closes or leaves a scope | Blocks are shared and cached; a block kept too long destroys the wrong objects. |
| PochiVM AST modules, contexts, boilerplate library | thread-local context, current module, object code | build, validate, link | Binary layout. |
| Mini database, Python bindings, tool, example | – | clients of the above | – |
| googletest, pybind11, moodycamel queue | – | vendored | External. |

How they interact: a client holds `TensorBase` references and calls the engine; the engine
calls the lowering machinery and then a kernel module for each assignment it compiles; the
module emits C and loads a library, or builds a PochiVM module whose code lives in memory
from the pool; `pack` and iteration use modules from the helper cache in the same way. The
engine's tensors share state with each other: an operand keeps weak references to the
tensors that read it (`dependentTensors`) and calls them back before it changes.

`PROJECT.json` lists every component with its status and, under `hazards`, what in this code
is hard to test, at its line.

## Modules

| Module | What it is |
|---|---|
| `LazyTensor` | the delayed-evaluation engine |
| `EagerTensor` | what the engine promises: tensors that are never delayed |
| `LazyTensorProofs` | theorems about `LazyTensor`: types, kernels, delayed assignments, failures stay isolated, it implements `EagerTensor` |
| `MCLazyTensor` | instances of `LazyTensor` for TLC |
| `CodegenMemoryPool` | the chunk pool with the arenas that use it |
| `MCCodegenMemoryPool` | instances of `CodegenMemoryPool` for TLC |
| `CodegenMemoryPoolProofs` | theorems about `CodegenMemoryPool` |
| `TensorPack` | the coordinate buffer, `pack`, the iterator and the helper cache, with several threads |
| `MCTensorPack` | an instance of `TensorPack` for TLC |
| `TensorPackProofs` | theorems about `TensorPack` |
| `MergeLattice` | merge lattices as operators on sequences of points |
| `MergedLoops` | the loops lowered from a merge lattice, run on operands of every pattern; extends `MergeLattice` |
| `MCMergedLoops` | an instance of `MergedLoops` for TLC: every expression of up to three operands |
| `MergedLoopsProofs` | theorems about `MergedLoops` and the lattices of `MergeLattice` |
| `KernelModule` | modules of generated code, their two back ends and the back-end switch |
| `KernelModuleProofs` | theorems about `KernelModule` |
| `FIStackFrame` | the fast interpreter's frame and its two passes, and the code they generate |
| `MCFIStackFrame` | an instance of `FIStackFrame` for TLC |
| `FIStackFrameProofs` | theorems about `FIStackFrame`: the frame |
| `FIStackFrameAgreementProofs` | theorems about `FIStackFrame`: the two passes agree |
| `ScopedVariables` | the destructors the fast interpreter generates for every way out of a scope |
| `ScopedVariablesProofs` | theorems about `ScopedVariables` |

Operators named `X_Y` beside an operator `X`, marked "Mutant", are plausible wrong versions
of `X`. The specifications never use them; with one of them in place of `X`, the property
that `PROJECT.json` pairs it with is violated.

### LazyTensor

*State and code.* The flags and lists are those of `TensorBase::Content`
(`include/taco/tensor.h:870-905`), as functions from tensors. The C++ methods recurse over the
graph of tensors; the variable `agenda` is their call stack as the sequence of calls still to
be made. An action executes the first call (`syncValues`, `compile`, `assemble`, `compute`,
`removeDependentTensor`, the clearing of the dependents, the run of a compiled function) and
puts the calls it makes in front of the rest, so every intermediate state of the recursion is a
state of the model. `client` holds the public method being served; the part of a method that
follows its nested calls is its `Finish` action. A thrown exception (`Throw`) drops the stack
and undoes nothing, as in C++. The library is single-threaded here: one client, one stack. The
choice of the client's next call is arbitrary, and so is the order in which operands are
visited, since `getTensors` orders them by address.

*Data.* A value is the set of the mutations it is made of, each a token from `clock`. An insert
adds its token; an assignment or `setStorage` makes the value the singleton of its token. A
run of a compute function produces the assignment's token exactly if the kernel was compiled for
this assignment, there are arrays to write to, and every operand's storage is what the
assignment named; otherwise it produces `Garbage`. Compound assignments behave like plain ones
here because the generated compute function clears a dense result first
(`src/lower/lowerer_impl_imperative.cpp`, `initResultArrays`), and differ in that `evaluate()`
does not assemble for them. `compile()` may throw in three places, each given by the operand sets
that fail there: before it looks at its flag (`Rejected`, `tensor.cpp:593-625`), in `lower()`, with the flag
down and the old module kept (`Unlowerable`), and in `module->compile()`, with the old module already
replaced by one without functions (`Uncompilable`, `tensor.cpp:654-657`). Calling a function of a module
that was never compiled, or failed to, throws, as it does with the interpreter back end, the default.
A tensor of order zero (`Scalars`) may be assigned through `Access` or through `operator=`, which only joins
the dependents of its new operands and never leaves those of the old ones (`Joined`, `tensor.cpp:842-863`), so a
tensor may be the dependent of one that it no longer reads. The history variables `token`, `want` and `eager` record
what the assignment of a tensor stands for, and `spoiled` whether it was made, through however many
operands, from an assignment that fails to compile; nothing in the engine reads them.

*What the client may do.* The library accepts some sequences of calls its flags cannot
distinguish from ordinary ones. They are named (`Patterns`); `Usage` says which the client
follows. With `Usage = {}` the engine keeps all its promises; the run `lazy_insert_pending` shows what
`insertPending` breaks. Adding one of these to `Usage` also ends in a counterexample: `insertStored`
breaks `ReadIsEager` (the first insert after a computation or `setStorage` drops what was stored,
`tensor.cpp:292`), `compoundFresh` breaks `ComputeHasSpace` (`evaluate()` of a compound assignment
computes without having assembled, `tensor.cpp:836`), and so does `fuseCompiled` (a kernel runs that
was compiled for the other mode).
`assignBuffered`, `assembleComputed` and `setShared` are excluded and unchecked: no document says
what should happen. The client calls `compile`, `assemble`, `compute` and
`setAssembleWhileCompute` itself only on the tensors of the constant `ByHand`; on the others it uses
`evaluate` and reads. A tensor on both sides of its assignment is excluded because
its synchronization does not end.

*Not modelled.* Lifetimes (a dependent's weak reference always resolves), the kernel cache
(compiled out, `#if 0` at `tensor.cpp:638`). `compileSource` is in `KernelModule`, the layout of the
buffer in `TensorPack`.

*Refinement.* `ImplementsEager`: with the mapping `Logical` (what a tensor will hold when it has
done all it owes), every step of the engine is an `Insert` or an `Assign` of `EagerTensor` or
changes nothing. That is stronger than correct reads: packing, compiling, computing and
synchronizing are invisible at every intermediate state of the recursion.

### CodegenMemoryPool

One action per atomic step of the two headers: `try_dequeue` and the `fetch_sub` that follows,
`mmap`, the linking of a chunk, the load of the counter, `enqueue` and the `fetch_add` that
follows, `munmap`; between them any other thread may run. Addresses are a chunk and an offset.
`try_dequeue` may find nothing although a chunk is in the queue and `enqueue` may fail, which is
what the queue's documentation allows; `munmap` may fail, and the chunk is then reported and
forgotten (`lost`). When no chunk is left, `mmap` fails and the process aborts: the thread stops
in the model, so those runs do not check for deadlock. `owned` and `objects` are history: which
chunks a thread has been given and not yet handed back, and the objects it still uses.
`TempArenaAllocator` objects are used by one thread each, as PochiVM's thread-local context does.

### TensorPack

A tensor and the thread that uses it are one index; the threads meet in the helper cache and in the
global `numIntegersToCompare`. The buffer is a sequence of components, `used` its used part in
components (the code counts bytes; both are multiples of the component size). `InsertUnsynced` keeps the
unsigned comparison: if less is there than is used, no room is made. The generated functions are
modelled by what they compute: `Merged` and `PackKernel` stand for `pack` (the statement
`packed(i..) = buffer(i..)` that `getHelperFunctions` lowers), `Filled` for the coroutine `iterate`.
`pack()` is several steps: the look-up and compilation of the helpers, the reinsertion loop one
component at a time, the write of the comparator's width, and the sort with the rest. `narrowest` is
the least width a sort may have read, from which `Sorts` gives every order it may leave. `total`
and `seen` are history. Dependents, assignments and flags other than the two of packing are
in `LazyTensor`; `pack` there is this module's whole sequence.

Two usages are left out because the code does not keep `IncrementSemantics` for them: inserting into a
scalar that was packed (`Usage` = `scalarAgain`; `tensor.cpp:374` clears the buffer but not
`coordinateBufferUsed`), and packing tensors of different orders on two threads at once (the constant
`Programs`; the comparator reads the other thread's width, `tensor.cpp:238-247, 404`).

### MergeLattice and MergedLoops

`MergeLattice` has one operator per function of `merge_lattice.cpp` that does something to the lattices of
the formats modelled, on sequences of points (the order of points matters). An expression is a sequence of
nodes, the operands of a node before it and named by position, so that the recursions of the code (the builder
of lattices, `zero`) are recursive functions over positions. A point is the set of its iterators. Its
locators are not kept, as the kind of an operand tells whether it is located, nor its result iterators, which
are the same in every point; that a set has one dimension iterator is `deduplicateDimensionIterators`.
Properties of iterators come from the kind of the level.

`MergedLoops` interprets the loops that `lowerMergeLattice` emits for `R(i) = e`: `loop` is the point whose
`while` is running, an `Iterate` step is one iteration (load, resolve, deduplicate, case, append, advance, in
this order) and `NextLoop` goes to the next `while`. The right-hand sides are the constant `Expressions`;
`MCMergedLoops` gives it all expressions of up to three operands, and the initial states are these
with all patterns of their levels. A value is a number that tells operand and coordinate apart, so a wrong
operand shows in the result. The reference (`ValueAt`, `Present`) does not use lattices.

Two kinds of expressions are left out, and with either allowed in `Usage` TLC finds
`LoopsComputeExpression` violated:

* `fullFactor`: a sum one of whose terms is a product with a full compressed level.
  `removePointsThatLackFullIterators` (`merge_lattice.cpp:400, 542-561`) drops the points without
  that level, which are needed once the product's other factor is exhausted.
* `fullDuplicates`: a full level merged with a level that has duplicates. `alwaysReduce`
  (`lowerer_impl_imperative.cpp:1629`) then takes the first duplicate without a test although it may lie
  at a later coordinate.

Beside a dimension iterator the code declares the coordinate of several mergers in that iterator's own variable
(`lowerer_impl_imperative.cpp:1704-1707`); `coordinate` does not follow it there, since of the expressions of the run
only those with `fullFactor` have such a point.

`Lowerable` keeps out the points that an assertion of `checkThatNoneAreExhausted` rejects. Not modelled:
levels below others, windows and index sets, derived index variables, intrinsics, division, square
roots, casts, the shortcut for Boolean expressions that are true everywhere, and one `Access` object
used twice in an expression.

### KernelModule

One action per step of `Module::compile` that other threads can come between: generation (into the
interpreter's table or a C file), the second question for the back end, the shims appended to the C
file, the compiler, the loading. A thread has a tensor, a kernel and the cached helpers. A function is
the version of the assignment it was lowered from, so running an old one shows. The cache of helpers is
shared: once one thread has put its module there, every thread may call it and none compiles another, but two
that look at the same time both compile (`Cached`).

A library's name is twelve characters from a random engine that all threads share and nothing guards
(`module.cpp:58-69`). A draw is two steps, reading the engine's state (`Begin`) and writing back the next one
(`Construct`), and a name is the place of the state it began with in the engine's sequence. Draws that overlap
may so give two modules one name, or set the engine back so that later draws repeat names; from
then on two threads may write one C file and load one library. `raced` (history) says that this has
happened, and `CallRunsCurrent` then promises the right function to interpreted modules alone: without this
condition TLC finds the property violated. That draws which do not overlap repeat no name
(a coincidence of twelve random characters) is assumed. The module a tensor is constructed with has
the name 0, which is never compiled to a file that could load. `Usage` says
whether clients call `compileSource`, switch the back end during a compilation (`switchCompiling`) or
between compilation and call (`callSwitched`); the last two break `CallRunsCurrent` and are left out, as
the back end is a setting made before tensors are compiled. The helpers are always compiled to C
(`codegen_pochi.cpp:27-34`) and may be called after any switch.

### FIStackFrame

`fm` is the `FIStackFrameManager`: planner (base, top, maximum, free list, saved bases) and one operand
stack per register class. The recursive walks are a stack of pending calls, `work`; the first pass chooses
the expression while it visits it, so all expressions up to `MaxNodes` nodes are covered. The first
pass leaves its answers in `nodes` (`m_fiIsLhsSpill`, `m_fastInterpSpillNewSfAddrAt`), the second allocates
variables, pushes and pops the same temporaries and emits snippets in the order in which they run.
`Run` gives the boilerplates a meaning, read from their templates (`fastinterp_tpl_*.cpp`): registers and bytes
hold the node whose value they have, and a boilerplate keeps as many registers as its template carries
through as opaque parameters (`fastinterp_tpl_opaque_params.h:8-45`). The operands and the result are those of
`fastinterp_tpl_outlined_arith_expr.cpp:62-106`, which the other expression templates share, and stores of
parameters those of `fastinterp_tpl_call_expr_store_param.cpp:27-117`. How the build turns templates into
boilerplates is not modelled. Nor are pointers and array accesses, `mem2reg`,
functions returning through `sret`, and inlined operand shapes beyond their number of operands.

### ScopedVariables

The manager's members with their names; `walk` is the position in the AST, `live` (history) the variables
that are alive there according to the language, and `jump` (history) the way out of scopes that the last
step generated. A destructor block is the sequence of the variables it destroys until the catch block.
A `throw` opens a scope that no AST node stands for (`EnterThrow`); its operand, or
the constructor of the exception object, is generated in it and may itself throw (`CallMayThrow`), and the
object joins the variables that the exception destroys before the throw's own exception point
(`ThrowLValue`, `ThrowObject`; `ast_catch_throw_fastinterp.cpp:28-146`).
`if` is modelled by its then clause, as an else clause is generated in the same way behind it. The LLVM
mode of the class is not modelled.

## Runs

| Run | Instance | Shows |
|---|---|---|
| `lazy_three` | 3 tensors, all scalars, operand sets of one or two tensors, 4 mutations, symmetric | reads are eager, pending assignments are current and acyclic, kernels current, implements `EagerTensor` |
| `lazy_stages` | 2 tensors, both in `ByHand`, plain and compound assignments, both modes of assembly, 3 mutations | reads are eager also when the stages are called by hand and the mode changes before compilation, a compute function finds its arrays, a pending tensor is computed once |
| `lazy_failing` | 3 tensors, four operand sets: one compiles, the others fail at one of the three places each, 3 mutations | exceptions do not reach what was not made from a failing assignment, pending assignments stay current, and every call returns |
| `pool_threads` | 2 threads, 4 chunks, threshold 1, two request sizes, symmetric | ownership, objects, counter, bound, no chunk drops out of a list |
| `pool_reset` | 2 threads, 2 chunks, threshold 0, no symmetry | a reset ends |
| `pack_threads` | pairs of threads among two sparse column-major matrices, a dense matrix and a scalar, 2x2, up to 3 inserts, chunks of 2 | increments add up, storage sorted, loops read everything, writes inside the buffer, a pack leaves an empty buffer |
| `merged_loops` | up to 3 operands of 4 kinds, `+ - *` and negation, dimension 3, up to 2 duplicates | the loops compute the expression, append in order, load inside the levels, end; exact sub-lattices have a case |
| `kernel_modules` | 2 threads, 2 assignments each, 3 modules, `compileSource` allowed | calls run the current function, also while draws of library names overlap |
| `frame_spill` | 2 declarations, 5 expression nodes, 2 registers per class, calls of up to 2 parameters, variables of 1, 4 and 8 bytes | no overlap, spills below registers, both passes agree, a register is free when one is needed, the code is right |
| `scope_exits` | 2 functions, 4 scopes deep, 4 variables, throwing and `noexcept` | exceptions and jumps destroy exactly what they leave, cached blocks are current, also from one function to the next |

Bounds. `ByHand` is empty except in `lazy_stages`: calling the stages of three tensors by hand
multiplies the states without new interactions, as a synchronization makes the same calls. `Clock` bounds
the client's mutations; the calls between them are unbounded. Four mutations over three tensors are enough
for a diamond or a chain of delayed assignments followed by a mutation of a shared operand, for an attempt
to close a circle, and for a reassignment of a tensor in the middle of a chain. All three may be assigned
like scalars, as a larger set of them has more behaviours. In `lazy_failing` three tensors are
enough for two distinct dependents of one operand, of which the first or the second fails when the operand changes, and
for a dependent that fails while it computes an operand of another; three mutations make the two and change
the operand, which may be tried again any number of times. What was interrupted (a flag already down, the old or empty
module of the failing tensor, a dependent that was not synchronized) is then met by tensors it must not harm. In the pool, four chunks
against threshold one and two threads let the pool reach its bound of three; a chunk holds two
objects unless both must be aligned, so both paths of `Allocate` occur, and space checks that come
out differently with and without the padding; lists reach length four. In `TensorPack`, three components
in chunks of two give a full, a partial and, with two, an empty last chunk, and a reinsertion with new
components; four coordinates are enough for sorting by columns to differ from sorting by rows. In
`MergedLoops` three operands are enough for every shape of a lattice with a point removed, and three
coordinates for an operand to end before, at and behind another's. In `FIStackFrame` two registers instead
of three make five nodes overflow them and leave nodes for a call inside; sizes 1 and 4 make frames that are not
aligned to 8. Four scopes are a function, a loop header, its body and a block. Three modules with two
threads let one thread compile twice while the other compiles.

Fairness. `LazyTensor` assumes weak fairness of the internal steps: a method runs to completion
on its caller's thread. No client call is fair. `CodegenMemoryPool` assumes weak fairness of the
steps of a thread that is freeing its chunks: the queue operations are lock-free and the
scheduler runs every thread. Allocation is not fair and need not end (the process may abort). That merged
loops end is the invariant `IterationAdvances` with the bounds in `LoadsInside`, without fairness.

Runs that find a violation (`findings` in `PROJECT.json` quotes the line each contradicts):

| Run | What the counterexample shows |
|---|---|
| `lazy_insert_pending` | a component inserted into a tensor whose assignment is pending replaces the assignment |
| `kernel_source` | after `compileSource()` a call throws, or finds no function: the given text is never compiled |

Other places where the models and a document or comment disagree, found with the same modules and
reproduced by changing a constant: the pool keeps one chunk more than "the maximum number of memory
chunks we keep" (`global_codegen_memory_pool.h:20, 51`: the comparison is `<=`; `PoolBounded` states the
bound that holds), also with a single thread; after a compilation that throws, the tensor counts as
compiled (`tensor.cpp:630`, `KernelIsCurrent` with `Unlowerable` not empty); after an operand fails, the tensor that reads it counts as
computed (`tensor.cpp:816`); and the usage patterns named with each module above.

## Proofs

What is proved, for which constants, and of which run's property:

| Module | Theorem | Assumptions besides those of the component |
|---|---|---|
| `CodegenMemoryPoolProofs` | `ExclusiveChunks`, `CounterTracksQueue`, `PoolBounded`, `ObjectsIntact`, `NothingLeaks` | – |
| `LazyTensorProofs` | `TypeOK` | – |
| | `KernelIsCurrent` | every assignment compiles (`Failing = {}`) |
| | `PendingAcyclic` | the client does not follow `insertPending` |
| | `PendingIsCurrent` | nor `setShared` |
| | `FailureIsIsolated` | `Usage = {}` |
| | `ReadIsEager`, `ComputeHasSpace`, `ComputedOnce`, `ImplementsEager` | `Usage = {}`, every assignment compiles |
| `KernelModuleProofs` | `CallRunsCurrent` | neither `switchCompiling` nor `callSwitched` |
| `TensorPackProofs` | `TypeOK`, `WritesInside`, `LoopReadsAll` | – |
| | `StorageIsSorted` | `SameOrders`: tensors packed at the same time have one order |
| | `IncrementSemantics` | `SameOrders`, and the client does not follow `scalarAgain` |
| `ScopedVariablesProofs` | `TypeOK`, `TreeIsCurrent`, `ExceptionDestroysLive`, `JumpDestroysLeft` | – |
| `FIStackFrameProofs` | `NoOverlap`, `SpilledBelow` | – |
| `FIStackFrameAgreementProofs` | `RegisterIsFree`, `SecondPassAgrees` | – |
| `MergedLoopsProofs` | `AppendsAscending`, `LoadsInside`, `ExactHasCase`, `IterationAdvances` | – |
| | `LoopsComputeExpression` | neither `fullFactor` nor `fullDuplicates` |

The usage patterns are those named with each module above; the theorems with
`Usage = {}` exclude all of `LazyTensor`'s together, the promise made to a well-behaved client. `PendingAcyclic` and
`PendingIsCurrent` hold also with compilations that throw, and `FailureIsIsolated` is about nothing else. The instances of the runs satisfy the
assumptions of the theorems about the properties they check. Every safety property of a passing run but one
(`CodeIsRight`) is a theorem.

The components' own assumptions say what a configuration of the code is: in the pool, what a chunk
geometry must satisfy (the header is not empty and fits before the largest alignment, which is smaller
than a chunk), the assertions `Allocate` makes about its arguments, and that every alignment divides the
largest, as powers of two do; in the merged loops, that the right-hand sides are expressions in which every
operand is accessed at most once; in the frame, that a register class has a register, that the frame starts
behind a header of a multiple of 8 bytes and that variables are not empty; elsewhere types and finiteness.

Two techniques recur. *Frames*: an invariant is a conjunction over threads or tensors, and a lemma says
that whoever a step leaves alone keeps its part (`SameLocal` in `TensorPackProofs`, `OtherArenas` in
`CodegenMemoryPoolProofs`, `ReplaceModule` in `KernelModuleProofs`). *Induction*: the library's induction
theorem has an operator parameter, which the provers cannot instantiate, so `SetInduction` proves
induction for a set instead, from the fact that finite subsets are well-founded. A recursive function
(`Chain`, `Amount`, `NumNontrivial`, the blocks of `ScopedVariables`, the lattices of `MergeLattice`) is then given a closed
form or its equation by induction over the set of numbers for which it holds.

### CodegenMemoryPool

`ExclusiveChunks` alone is not inductive. A thread that unlinks a chunk takes it from its list
head, or from a link it read before; that these are chunks it owns needs the shape of the lists
(`ListShape`: the links of the chunks a thread owns stay among them, no two links meet and none
leads back to the first), and that a chunk in transit is owned (`TransitOwned`). Stating the shape by
what one chunk says about the next avoids reachability.
`PoolBounded` needs `PoolSlack`, which counts chunks about to be enqueued as already there, and the
exact error of the counter (`CounterTracksQueue`). `TypeStep` proves the types, `OwningStep` the
ownership and lists, `CountingStep` the cardinalities; `OthersLinked` says that a step that
writes only the link of a chunk a thread owns leaves all other threads' lists alone, and `Moved`
what moving one thread between program points does to the counts.

`ArenasInvariant` adds where objects are: in a linked chunk of their arena, behind the link, apart from
each other, and below the current address if their chunk is the one being filled. `PlaceKeeps` is the step
that matters: a new object lies behind the others of its chunk. `LeakInvariant` adds that every mapped chunk
is in the pool, lost, or owned (`AllHeld`), and that the linked chunks of a thread are one list
(`Listed`); `NothingLeaks` speaks of what `Chain` reaches, so the closed form of `Chain` is
proved by induction.

### LazyTensor

`TypeOKHolds` is together with `ClockRoom` (a request that draws a token found one left).
`CompilableIsCurrentHolds`: flag and compiled module agree for every assignment that compiles,
even after others threw; and from it `KernelIsCurrentHolds`.

`PendingIsCurrentHolds` and `PendingAcyclicHolds` say that delaying is sound, with compilations that throw
anywhere. Neither property is inductive: a mutation must find that no pending tensor reads its target,
which depends on all the calls made since it began. The invariant `Bookkeeping` says why. A pending tensor
is in the list of each operand (`Registered`); while a tensor is being mutated, the stack holds, for each
pending tensor that reads it, a `syncValues` or `compute` call (`Covered`), and such a call either computes
the tensor or throws, because a pending tensor never needs packing (`PackedOrPending`; this is where
`insertPending` is excluded); the list is cleared after all other calls (`ClearedLast`); and only
tensors that are no longer pending leave a list early (`OnlyComputedLeave`). `PushKeeps` shows that
replacing the first call by those it makes preserves the three facts about the stack, so each action
only has to say which calls it makes. `WithoutKeeps` and `RewiredKeeps` say that removing one tensor
from a list, where the last element takes its place, loses no other.

The second half of the module proves that reads are eager also where compilations throw (`FailureIsIsolated`), and
that the engine implements `EagerTensor` when none does. Call a tensor *clean* if it is not `spoiled`.
`EagerInvariant` joins the two theorems above (`Bookkeeping`, `PendingAcyclic`, `NamedIsCurrent`,
`CompilableIsCurrent`) to

* `Orderly`, what the call stack looks like: what is done in front of the computation of a clean tensor is
  done for clean tensors with older assignments (`Descending`), each call finds its module compiled or about
  to be, and what a caller relies on afterwards is either true or still on the stack in front of it. It turns
  a fact that holds *when* a call returns into one that holds in every state;
* `Settled`, what the storages hold: the value that the mapping `Logical` gives a clean tensor is the eager
  one (`LogicalIsEager`), the tensors a clean one waits for are clean (`CleanOperands`), a tensor that needs
  no packing has nothing in its buffer, the compiled module of a clean tensor and the tensor agree on who
  assembles, and what an assignment named is still what its operands are worth (`OwedNamed`).

Nothing is said about what a spoiled tensor holds or what its flags are worth. What has to be shown about
an exception is that it drops no computation of a clean tensor whose flag is already down (`NoRuns`). It
is thrown either by a stage of a spoiled tensor (`CleanCompilable`, `KernelThere`), which never stands in front of
such a computation (`SpoiledInterrupts`), or by a `compile()` that the client itself asked for on a tensor without an
assignment, when nothing else is on the stack (`CompileFirst`). When every assignment compiles all
tensors are clean (`AllCleanHolds`), which gives the other four theorems.

`Executes` says in one formula what the internal actions do to flags, stack and values;
`StackSettled` is proved from it once for all of them, `InsertSettled`, `AssignSettled`, `CallSettled` and
`DirectSettled` for the client's actions. The refinement is then: a
client's insert or assignment is the abstract step, and every other step leaves `Logical` alone.

### KernelModule

`LibraryInvariant`: unless two draws have overlapped, names are drawn before they are used and no two modules
share one, and the file, the shared object and the library of a module hold texts of that module's functions
only. That an overlap never goes unnoticed (the thread that draws last finds the engine's state
changed) is part of it. `CallInvariant` adds
for each thread how far its compilation has come with which back end (`InProgress`), what a module that is
not being compiled has of the back end it was built for (`Ready`), and that a tensor that needs no
compilation has the module of its current assignment (`TensorOf`). Switching the back end between the
three questions breaks `InProgress`, between compilation and call the way from `Ready` to what
the call finds.

### TensorPack

`PackInvariant` is a conjunction over tensors: types, the used part and the capacity of the buffer
(`Room`: no more is used than is there, except in a scalar that was packed, the buffer of which is cleared alone), where the
iterator is in the storage (`Iterating`) and what was read so far (`Reading`). `SortInvariant` adds that a thread
about to sort has seen no width below its tensor's order, which only holds if `SameOrders` does, since the
width is one global; a sort that reads the full width leaves a strictly ascending storage once duplicates are merged.
`SumInvariant` is the conservation law behind `IncrementSemantics`: at every coordinate, what waits in
the buffer and what is stored add up to what was inserted plus what the loop has already inserted again.
The amount of a list at a coordinate is the cardinality of the set of its units, so that a sort, which may
leave any order, is a bijection that changes no amount.

### ScopedVariables

`ScopeInvariant`: the scopes of the manager are those of the walk, each scope's variables are the live
variables between two marks (`Slices`), the path of cached destructor blocks belongs to these scopes (`Path`:
each block destroys the first variables of its scope and all of the scopes below, and only the innermost may
leave some out), break and
continue targets rise and are exactly the scopes of loop bodies (`Loops`), and the count of variables with
destructors is right. The properties compare the generated blocks with the variables alive according to
the language, so each way of leaving scopes needs the block's contents in closed form.

### FIStackFrame

`WalkInvariant` has two halves. The frame is in order (`Good`): its bounds, on each stack the spilled
operands below `m_firstNoSpill` and the others few enough for the registers, and the slots of spilled
operands and the free list inside the frame, at multiples of 8, and apart; variables lie between the bases that
were saved when they were declared. And the pending calls of the recursive walk account for the stacks: a call that
will pop an operand has the weight 1 on that operand's stack (`Weight`), and the depth of each stack is
the sum of the weights of all pending calls (`Counts`), so a pop never meets an empty stack.
For a call to know the type of what it will find, no node may be awaited by two calls and awaited nodes
are not yet visited (`WorkOk`). Each action is the return of the first call (`RestOk`) followed by the calls it makes
(`CallOk`). What the theorems say is therefore about every expression, not the ones of up to
`MaxNodes` nodes that the run enumerates.

`FIStackFrameAgreementProofs` compares the second walk with the first. The second one runs with a fresh frame
manager over a tree the first one annotated, so nothing in a state relates the two. `SpillInvariant` therefore
adds to `WalkInvariant` that there is an assignment `S` of stacks to nodes, `S[n][t]` being the sequence of
operands on stack `t` when a pass arrives at `n` (`Plan`). `Shape` says how the stacks of a node's
operands follow from the node's own (a right operand finds the left one on top, a parameter the address of
the callee's frame), `Roots` that an initializer finds none, and `Paths` and `Matches` that the pending calls
and the frame are where `S` says. `S` grows by the operands of a node when the first pass visits it, and is
final when this pass ends.

* First pass, `SetupPlan`: what a visited node wants spilled (`Wants`: the operands beyond the registers that
  its result and those above leave, all of them at a call, and all below a left operand that is itself spilled) is marked in
  the tree already, or is spilled in the frame and will be marked when it is popped (`SpillLaw`). When
  the walk ends nothing is left to pop, so all that any node wants is marked (`Announced`).
* Second pass, `PreparePlan`: exactly the marked operands on the stacks are spilled (`Exact`). A push that is
  asked to spill spills all operands below it; that these are marked too is `Announced` at the node
  being pushed. A push that is not asked to spill leaves a register free for the same reason.

One lemma per action shows how it follows the plan (`LeafPlan` to `StatementPlan` for the first pass,
`ReturnPlan` to `StatementAgrees` for the second); `PlanNext` joins them, and both properties are
read off `Exact` and `Announced`.

### MergeLattice and MergedLoops

The theorems hold for expressions of any size, whatever their lattice; what they need of it is `WellFormed`: no
point is empty; any two points have a join, the union of their iterators, which is not behind either of them
(`Joined`); and the full iterators of the first point are in every point (`FullEverywhere`). A lattice of one
point has this. `IntersectWellFormed` shows that an intersection keeps it (the dimension iterator that is dropped
is dropped from one side of every point), and `UnionWellFormed` that a union does, without the points that the
two optimizations remove (`KeepsJoins`): a join has the full iterators that its two points have, so it is kept
with them, and of equal points the first stays, which is not behind the others. `BuildWellFormed` is the induction over
the nodes of the expression.

The properties are not inductive: that a coordinate lies behind those appended before depends on where all
iterators are, also those of points whose loops are still to come. The invariant adds a frontier `x`
(`Visited`): the appended coordinates are before it; every full iterator is at it; the loops before `loop` are
over and stay so; and no iterator of a loop that is not over is behind it. That an iteration keeps the last part is the step that
matters. It advances only the iterators of its own point; a later point whose loop is not over is contained in
this point, because the join of the two would otherwise come earlier, and an iterator it tests would be
exhausted in one of them (`OtherPointsOver`), so all its iterators that were at the coordinate of this iteration moved
past it. For the other points `StaysExhausted` says that what is exhausted stays exhausted. `AdvancedFacts` says how
far each kind of iterator moves, `CoordinateFacts` that the coordinate is that of every full iterator and at
least the frontier, and `RunningInside` that a loop that tests only some of its iterators finds the others
inside, which is where full levels matter.

Neither of the two usages left out above is assumed away here: they only break `LoopsComputeExpression`.

`LoopsComputeExpressionHolds` says that the loops also do what they are for. What the appended values and
coordinates should be is the reference of `MergedLoops`, which knows no lattices, so the proof first gives the
lattice a meaning. Let `A` be the iterators that have a component at a coordinate (`Having`), with the full
ones among them.

* *Where.* `SomeCases`, by induction over the nodes: the lattice of a node has a point inside `A` (`Some`) exactly if the
  node has a component there. For a product this is that points intersect pairwise. For a sum it is
  `UnionContains`: the union keeps every point inside `A` up to a larger one also inside, although points without the full
  iterators of the first were removed. It needs that each side has a point of full iterators only if it has any
  (`AlwaysThere`), which `FullPoint` and `SumsAlwaysThere` show of an expression in which no product below a sum has a
  full factor; with `fullFactor` it is false.
* *What.* `ZeroValues` and `ValuesInside`: the expression that `zero()` leaves after removing the accesses of the iterators
  outside the points inside `A` has the value of the whole (`Valued` says what value each node has, or that it
  is undefined where nothing is left of it), so the case that is taken (`OneTaken`, `CaseValue`) appends the right one.
* *All of it.* The invariant `Computes` adds to `Visited(x)` that the components behind the frontier are
  those before the position variables (`Passed`; a segment of duplicates is passed as a whole, `SegmentFacts`, where
  `fullDuplicates` is excluded) and that the coordinates before the frontier are done: appended, with their
  value, exactly if the expression has a component (`Correct`). Between the frontier and the coordinate of
  an iteration nothing has a component (`AbsentBetween`); at the end all points are over and the frontier may
  be moved to the dimension (`ComputesExpression`).

### Only model-checked

* Liveness: that resets complete (`ResetCompletes`) and calls return (`CallReturns`).
* `CodeIsRight` of `FIStackFrame`: a run of the generated code is a recursive function over the code, and that it
  computes a tree is an induction over both. The two theorems about the passes are what such an induction
  would use at each instruction.
* The two properties that runs find violated.

## Plan

Models that could follow: result arrays of nested compressed levels (positions, capacity doubling) as a
composition with `MergedLoops`; lifetimes in `LazyTensor`.

## Not modelled

The parsers, the rewriters of index notation and IR and the code generators, whose correctness is a
relation between programs; scheduling transformations, which are arithmetic on bounds without state; file
formats; names and environment (one counter per prefix); the target parser; the interpreter's object-code
library; the mini database, Python bindings, tool and example, which are sequential clients; vendored
code. `PROJECT.json` gives the reason for each.
