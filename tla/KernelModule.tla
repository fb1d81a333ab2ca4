----------------------------- MODULE KernelModule -----------------------------
(***************************************************************************)
(* Modules of generated code and the choice between their two back ends    *)
(* (src/codegen/module.cpp, src/codegen/codegen_pochi.cpp), as the tensors *)
(* of several threads, stand-alone kernels and the helper functions of     *)
(* getHelperFunctions() use them.  A module is compiled either to          *)
(* functions of the interpreter (fns) or to a C file, a shared object and  *)
(* a library handle; which of the two is asked again at every step from    *)
(* the global pochiState, also when a function is called.                  *)
(*                                                                         *)
(* A function is abstracted to its name and the version of the assignment  *)
(* it was lowered from; a file to the texts written to it; a library's     *)
(* name to its place in the sequence of names that the random engine       *)
(* yields.  The engine is shared by all threads and not locked: a draw     *)
(* reads its state in one step and writes it back in another.  The CUDA    *)
(* back end, which the build leaves out, is not modelled.                  *)
(***************************************************************************)
EXTENDS Naturals, Sequences, FiniteSets

CONSTANTS
    NThreads,       \* threads, each with a tensor, a kernel and helpers
    MaxVersions,    \* bound: assignments to a tensor
    MaxModules,     \* bound: modules constructed
    Usage           \* what clients do: "source" calls compileSource(),
                    \* "switchCompiling" switches the back end during a
                    \* compilation, "callSwitched" between one and its call

Threads == 1..NThreads

ASSUME ModuleAssumption ==
    /\ NThreads \in Nat \ {0}
    /\ MaxVersions \in Nat \ {0}
    /\ MaxModules \in Nat
    /\ Usage \subseteq {"source", "switchCompiling", "callSwitched"}

VARIABLES
    pochi,      \* pochiState
    gen,        \* Module::gen, as the number of names it has yielded
    made,       \* modules constructed or being constructed
    raced,      \* history: did two threads draw from it at the same time?
    files,      \* the texts of each C file
    objects,    \* the texts each shared object was compiled from
    mod,        \* the modules of each thread
    version,    \* the version of each tensor's assignment
    needs,      \* needsCompile of each tensor
    at          \* the compilation each thread is in

names == <<gen, made, raced>>
vars == <<pochi, names, files, objects, mod, version, needs, at>>

Kinds == {"tensor", "kernel", "helper"}

Names(kind) ==
    CASE kind = "tensor" -> {"assemble", "compute"}
      [] kind = "kernel" -> {"assemble", "compute", "evaluate"}
      [] kind = "helper" -> {"pack", "iterate"}

None == "none"
Idle == [kind |-> None, step |-> None, source |-> FALSE, seen |-> 0]

\* The functions of a version of a thread's module of some kind; no function.
Of(t, kind, n) == [t |-> t, kind |-> kind, n |-> n]
NoFunction(why) == Of(0, why, 0)
UserSource == Of(0, "user source", 0)

\* A module: its name (0: never compiled to a file), the names of its functions
\* and what they were lowered from, the interpreter's functions and the library
\* that is loaded.
EmptyModule(name) ==
    [name |-> name, funcs |-> {}, of |-> NoFunction(None), fns |-> <<>>, lib |-> <<>>,
     user |-> FALSE, built |-> FALSE]

Init ==
    /\ pochi = TRUE
    /\ gen = 0
    /\ made = 0
    /\ raced = FALSE
    /\ files = [m \in 0..MaxModules |-> <<>>]
    /\ objects = [m \in 0..MaxModules |-> <<>>]
    /\ mod = [t \in Threads |-> [k \in Kinds |-> EmptyModule(0)]]
    /\ version = [t \in Threads |-> 1]
    /\ needs = [t \in Threads |-> TRUE]
    /\ at = [t \in Threads |-> Idle]

IsIdle(t) == at[t] = Idle

\* should_use_pochi_codegen().
ShouldUsePochi(name) == pochi /\ name \notin {"pack", "iterate"}

\* A module is interpreted if all of its functions are.
UsePochi(m) == \A name \in m.funcs : ShouldUsePochi(name)

(***************************************************************************)
(* A module is constructed with a name of its own and its functions are    *)
(* added.                                                                  *)
(***************************************************************************)
\* setJITLibname() (12 random letters and digits) in the process's tmpdir:
\* the name that follows the state of the engine that the draw began with.
\* A draw that another one overlaps may so repeat a name, and set the engine
\* back.
LibName(t) == at[t].seen + 1

\* What the functions of the kind are lowered from.
Lowered(t, kind) == Of(t, kind, IF kind = "helper" THEN 0 ELSE version[t])

\* Mutant: the tensor goes on with the module it has.
NewModule_Reused(t, kind) ==
    [mod[t][kind] EXCEPT !.funcs = Names(kind), !.of = Lowered(t, kind),
                         !.built = pochi]

NewModule(t, kind) ==
    [EmptyModule(LibName(t)) EXCEPT
        !.funcs = Names(kind), !.of = Lowered(t, kind), !.built = pochi]

Begin(t, kind) ==
    /\ made < MaxModules
    /\ made' = made + 1
    /\ at' = [at EXCEPT ![t] = [kind |-> kind, step |-> "draw",
                                source |-> FALSE, seen |-> gen]]
    /\ UNCHANGED <<pochi, gen, raced, files, objects, mod, version>>

Construct(t) ==
    LET kind == at[t].kind
    IN  /\ at[t].step = "draw"
        /\ gen' = LibName(t)
        /\ raced' = (raced \/ gen # at[t].seen)
        /\ mod' = [mod EXCEPT ![t][kind] = NewModule(t, kind)]
        /\ at' = [at EXCEPT ![t].step = "generate"]
        /\ UNCHANGED <<pochi, made, files, objects, version, needs>>

\* TensorBase::compile().
CompileTensor(t) ==
    /\ IsIdle(t)
    /\ needs[t]
    /\ needs' = [needs EXCEPT ![t] = FALSE]
    /\ Begin(t, "tensor")

\* compile() of a statement to a Kernel.
CompileKernel(t) ==
    /\ IsIdle(t)
    /\ Begin(t, "kernel")
    /\ UNCHANGED needs

\* Has t compiled helper functions and put them in the cache, which all
\* threads share?
Cached(t) == mod[t]["helper"].lib # <<>> /\ at[t].kind # "helper"

\* getHelperFunctions() that finds nothing in the cache.
CompileHelpers(t) ==
    /\ IsIdle(t)
    /\ \A u \in Threads : ~Cached(u)
    /\ Begin(t, "helper")
    /\ UNCHANGED needs

\* compileSource(): the functions are lowered but not added to the module.
\* Bound: once for each module, since each call may append to its C file.
CompileSource(t) ==
    /\ "source" \in Usage
    /\ IsIdle(t)
    /\ ~mod[t]["tensor"].user
    /\ mod' = [mod EXCEPT ![t]["tensor"].user = TRUE]
    /\ at' = [at EXCEPT ![t] = [kind |-> "tensor", step |-> "generate",
                                source |-> TRUE, seen |-> 0]]
    /\ UNCHANGED <<pochi, names, files, objects, version, needs>>

(***************************************************************************)
(* Module::compile().                                                      *)
(***************************************************************************)
Current(t) == mod[t][at[t].kind]
Step(t, from, to) == at[t].step = from /\ at' = [at EXCEPT ![t].step = to]
Text(what, m) == [what |-> what, of |-> m.of]

\* compilePochi(): fns.insert() keeps what is there already.
Interpreted(m) ==
    [m EXCEPT !.fns = [name \in DOMAIN @ \cup m.funcs |->
                          IF name \in DOMAIN @ THEN @[name] ELSE m.of]]

\* compileToSource().
Generate(t) ==
    LET m == Current(t)
    IN  /\ Step(t, "generate", "decide")
        /\ mod' = IF ~m.user /\ UsePochi(m)
                  THEN [mod EXCEPT ![t][at[t].kind] = Interpreted(m)] ELSE mod
        /\ files' = IF ~m.user /\ ~UsePochi(m)
                    THEN [files EXCEPT ![m.name] = <<Text("functions", m)>>] ELSE files
        /\ UNCHANGED <<pochi, names, objects, version, needs>>

\* compile() returns; compileSource() then marks the tensor as compiled.
Returned(t) ==
    /\ at' = [at EXCEPT ![t] = Idle]
    /\ needs' = IF at[t].source THEN [needs EXCEPT ![t] = FALSE] ELSE needs

\* compile() asks again whether the module is interpreted.
DecidePochi(t) ==
    /\ at[t].step = "decide"
    /\ UsePochi(Current(t))
    /\ Returned(t)
    /\ UNCHANGED <<pochi, names, files, objects, mod, version>>

\* writeShims() appends to the C file.
DecideC(t) ==
    LET m == Current(t)
    IN  /\ Step(t, "decide", "gcc")
        /\ ~UsePochi(m)
        /\ files' = [files EXCEPT ![m.name] = Append(@, Text("shims", m))]
        /\ UNCHANGED <<pochi, names, objects, mod, version, needs>>

\* The C compiler takes a file with one definition of each function.
Compiles(texts) ==
    \A what \in {"functions", "shims"} :
        Cardinality({i \in DOMAIN texts : texts[i].what = what}) = 1

Gcc(t) ==
    LET m == Current(t)
    IN  /\ Step(t, "gcc", "load")
        /\ Compiles(files[m.name])
        /\ objects' = [objects EXCEPT ![m.name] = files[m.name]]
        /\ UNCHANGED <<pochi, names, files, mod, version, needs>>

\* The compilation command failed: compile() throws.
GccFails(t) ==
    /\ at[t].step = "gcc"
    /\ ~Compiles(files[Current(t).name])
    /\ at' = [at EXCEPT ![t] = Idle]
    /\ UNCHANGED <<pochi, names, files, objects, mod, version, needs>>

Load(t) ==
    /\ at[t].step = "load"
    /\ mod' = [mod EXCEPT ![t][at[t].kind].lib = objects[Current(t).name]]
    /\ Returned(t)
    /\ UNCHANGED <<pochi, names, files, objects, version>>

(***************************************************************************)
(* Calls and the client's other operations.                                *)
(***************************************************************************)
\* What callFuncPackedRaw() runs: fns.at() throws, dlsym() returns a null
\* pointer, or a function runs.
Callee(m, name) ==
    IF ShouldUsePochi(name)
    THEN IF name \in DOMAIN m.fns THEN m.fns[name] ELSE NoFunction("throws")
    ELSE IF m.lib # <<>> THEN m.lib[1].of ELSE NoFunction("null")

\* The calls a client may make: assemble() and compute() of a tensor that is
\* compiled, of a kernel, or, from any thread, the helpers that are cached.
MayCall(t, kind) ==
    LET m == mod[t][kind]
    IN  /\ IF kind = "helper" THEN Cached(t) ELSE IsIdle(t)
        /\ IF kind = "tensor" THEN ~needs[t] ELSE m.funcs # {}
        /\ kind # "helper" /\ ~m.user => m.built = pochi \/ "callSwitched" \in Usage

\* What the caller of a module means to run.
Wanted(t, kind) ==
    IF kind = "tensor" THEN Of(t, kind, version[t]) ELSE mod[t][kind].of

\* setAssignment() with a new right-hand side.
Reassign(t) ==
    /\ IsIdle(t)
    /\ version[t] < MaxVersions
    /\ version' = [version EXCEPT ![t] = @ + 1]
    /\ needs' = [needs EXCEPT ![t] = TRUE]
    /\ UNCHANGED <<pochi, names, files, objects, mod, at>>

\* set_pochi_state().
SetPochiState ==
    /\ "switchCompiling" \in Usage \/ \A t \in Threads : IsIdle(t)
    /\ pochi' = ~pochi
    /\ UNCHANGED <<names, files, objects, mod, version, needs, at>>

Next ==
    \/ SetPochiState
    \/ \E t \in Threads :
        \/ CompileTensor(t) \/ CompileKernel(t) \/ CompileHelpers(t)
        \/ CompileSource(t) \/ Construct(t) \/ Reassign(t)
        \/ Generate(t) \/ DecidePochi(t) \/ DecideC(t)
        \/ Gcc(t) \/ GccFails(t) \/ Load(t)

Spec == Init /\ [][Next]_vars

-----------------------------------------------------------------------------
\* A call runs the function of the assignment that the tensor, the kernel or
\* the helper was last compiled for, never an earlier one, none, or the one of
\* another module, whatever was compiled with either back end before or at
\* the same time, though threads write files, run the compiler and load
\* libraries in one directory.  pack and iterate, which are kept in a cache,
\* survive switches of the back end.  Only when two threads have drawn library
\* names at the same time from the engine that nothing guards (module.cpp:
\* 58-69) may one C file serve two modules: then this is promised of
\* interpreted modules alone.
CallRunsCurrent ==
    \A t \in Threads, kind \in Kinds :
        /\ MayCall(t, kind) /\ ~mod[t][kind].user
        /\ raced => UsePochi(mod[t][kind])
        => \A name \in Names(kind) : Callee(mod[t][kind], name) = Wanted(t, kind)

\* After compileSource() the functions of the given source are called:
\* include/taco/tensor.h says that it compiles "the source code of the
\* kernel functions".
SourceIsCompiled ==
    \A t \in Threads :
        MayCall(t, "tensor") /\ mod[t]["tensor"].user =>
            \A name \in Names("tensor") :
                Callee(mod[t]["tensor"], name) = UserSource
=============================================================================
