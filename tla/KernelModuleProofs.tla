-------------------------- MODULE KernelModuleProofs --------------------------
(***************************************************************************)
(* Theorem about KernelModule: when the back end is not switched in the    *)
(* middle of a compilation or before a call, a call runs the function that *)
(* was last compiled for its caller, from a library only if no two draws   *)
(* of library names overlapped.                                            *)
(***************************************************************************)
EXTENDS KernelModule, FiniteSetTheorems, SequenceTheorems, TLAPS

(***************************************************************************)
(* Types.                                                                  *)
(***************************************************************************)
Functions     == [t : Nat, kind : Kinds \cup {None}, n : Nat]
FunctionNames == {"assemble", "compute", "evaluate", "pack", "iterate"}
Texts         == [what : {"functions", "shims"}, of : Functions]
Tables        == UNION {[S -> Functions] : S \in SUBSET FunctionNames}
Modules ==
    [name : 0 .. MaxModules, funcs : SUBSET FunctionNames, of : Functions,
     fns : Tables, lib : Seq(Texts), user : BOOLEAN, built : BOOLEAN]
Compilations ==
    [kind : Kinds, step : {"draw", "generate", "decide", "gcc", "load"},
     source : BOOLEAN, seen : 0 .. MaxModules]

\* The engine yields no more names than modules were begun.
DrawsBounded ==
    /\ gen <= made
    /\ \A t \in Threads : at[t].step = "draw" => at[t].seen < made

TypeOK ==
    /\ pochi \in BOOLEAN
    /\ gen \in 0 .. MaxModules
    /\ made \in 0 .. MaxModules
    /\ raced \in BOOLEAN
    /\ files \in [0 .. MaxModules -> Seq(Texts)]
    /\ objects \in [0 .. MaxModules -> Seq(Texts)]
    /\ mod \in [Threads -> [Kinds -> Modules]]
    /\ version \in [Threads -> Nat]
    /\ needs \in [Threads -> BOOLEAN]
    /\ at \in [Threads -> Compilations \cup {Idle}]
    /\ DrawsBounded

(***************************************************************************)
(* Names and texts.                                                        *)
(***************************************************************************)
\* A module without a name has no functions, and no other has a name that
\* was not drawn.
NamesDrawn ==
    \A t \in Threads, k \in Kinds :
        /\ mod[t][k].name <= gen
        /\ mod[t][k].name = 0 => mod[t][k].funcs = {}

NamesDiffer ==
    \A t, u \in Threads : \A k, l \in Kinds :
        mod[t][k].name = mod[u][l].name /\ mod[t][k].name # 0
            => t = u /\ k = l

\* Nothing is written before its name is drawn.
NamesFresh ==
    \A n \in 0 .. MaxModules :
        n = 0 \/ n > gen => files[n] = <<>> /\ objects[n] = <<>>

OwnText(texts, m) == \A i \in 1 .. Len(texts) : texts[i].of = m.of

\* What is in a module's file, its shared object and its library was
\* generated from the module's functions.
TextsOwn ==
    \A t \in Threads, k \in Kinds :
        /\ OwnText(files[mod[t][k].name], mod[t][k])
        /\ OwnText(objects[mod[t][k].name], mod[t][k])
        /\ OwnText(mod[t][k].lib, mod[t][k])

\* No draw began with a state the engine has not reached.
SeenReached == \A t \in Threads : at[t].seen <= gen

\* What separates the modules as long as no two draws overlapped.
Separate ==
    NamesDrawn /\ NamesDiffer /\ NamesFresh /\ TextsOwn /\ SeenReached

LibraryInvariant == TypeOK /\ (raced \/ Separate)

\* The module of t of kind k is now m, and no other module changed.
Becomes(t, k, m) ==
    /\ mod'[t][k] = m
    /\ \A u \in Threads, l \in Kinds :
          u # t \/ l # k => mod'[u][l] = mod[u][l]

\* Replacing one module replaces no other.
LEMMA ReplaceModule ==
    ASSUME TypeOK, NEW t \in Threads, NEW k \in Kinds, NEW m \in Modules,
           mod' = [mod EXCEPT ![t][k] = m]
    PROVE  /\ mod' \in [Threads -> [Kinds -> Modules]]
           /\ Becomes(t, k, m)
<1>1. mod' \in [Threads -> [Kinds -> Modules]]
  BY DEF TypeOK
<1>2. mod'[t][k] = m
  BY DEF TypeOK
<1>3. \A u \in Threads, l \in Kinds :
         u # t \/ l # k => mod'[u][l] = mod[u][l]
  BY DEF TypeOK
<1>4. QED
  BY <1>1, <1>2, <1>3 DEF Becomes

\* The states of the engine are numbers that were reached.
LEMMA SeenType ==
    ASSUME TypeOK
    PROVE  /\ gen \in Nat /\ made \in Nat /\ MaxModules \in Nat
           /\ gen <= made /\ made <= MaxModules
           /\ \A t \in Threads :
                 /\ at[t].seen \in Nat
                 /\ at[t].step = "draw" =>
                       at[t] \in Compilations /\ at[t].seen < made
<1>1. MaxModules \in Nat
  BY ModuleAssumption
<1>2. gen \in Nat /\ made \in Nat /\ gen <= made /\ made <= MaxModules
  BY <1>1 DEF TypeOK, DrawsBounded
<1>3. ASSUME NEW t \in Threads
      PROVE  /\ at[t].seen \in Nat
             /\ at[t].step = "draw" =>
                   at[t] \in Compilations /\ at[t].seen < made
  <2>1. CASE at[t] \in Compilations
    <3>1. at[t].seen \in Nat
      BY <1>1, <2>1 DEF Compilations
    <3>2. at[t].step = "draw" => at[t].seen < made
      BY DEF TypeOK, DrawsBounded
    <3>3. QED
      BY <2>1, <3>1, <3>2
  <2>2. CASE at[t] = Idle
    BY <2>2 DEF Idle, None
  <2>3. QED
    BY <2>1, <2>2 DEF TypeOK
<1>4. QED
  BY <1>1, <1>2, <1>3

\* A module that was just constructed.
Fresh(m, t, k) ==
    /\ m.name = at[t].seen + 1 /\ m.funcs = Names(k) /\ m.of = Lowered(t, k)
    /\ m.fns = <<>> /\ m.lib = <<>> /\ m.user = FALSE /\ m.built = pochi

LEMMA NewModuleType ==
    ASSUME TypeOK, NEW t \in Threads, NEW k \in Kinds, at[t].step = "draw"
    PROVE  NewModule(t, k) \in Modules /\ Fresh(NewModule(t, k), t, k)
<1>1. PICK e : e = EmptyModule(LibName(t))
  OBVIOUS
<1>2. /\ Names(k) \in SUBSET FunctionNames /\ {} \in SUBSET FunctionNames
      /\ Lowered(t, k) \in Functions /\ NoFunction(None) \in Functions
      /\ pochi \in BOOLEAN
  <2>1. t \in Nat /\ version[t] \in Nat /\ pochi \in BOOLEAN
    BY ModuleAssumption DEF Threads, TypeOK
  <2>2. QED
    BY <2>1 DEF Names, Kinds, FunctionNames, Of, Lowered, NoFunction, None,
       Functions
<1>3. <<>> \in Tables
  <2>1. <<>> = [x \in {} |-> 0]
    OBVIOUS
  <2>2. [x \in {} |-> 0] \in [{} -> Functions]
    OBVIOUS
  <2>3. QED
    BY <2>1, <2>2 DEF Tables
<1>4. at[t].seen + 1 \in 0 .. MaxModules
  BY SeenType
<1>5. <<>> \in Seq(Texts)
  BY EmptySeq
<1>6. /\ e \in Modules /\ e.name = at[t].seen + 1
      /\ e.fns = <<>> /\ e.lib = <<>> /\ e.user = FALSE
  BY <1>1, <1>2, <1>3, <1>4, <1>5 DEF EmptyModule, LibName, Modules
<1>7. NewModule(t, k) =
         [e EXCEPT !.funcs = Names(k), !.of = Lowered(t, k), !.built = pochi]
  BY <1>1 DEF NewModule
<1>8. QED
  BY <1>2, <1>6, <1>7 DEF Modules, Fresh

\* The interpreter's functions of a module.
LEMMA InterpretedType ==
    ASSUME NEW m \in Modules
    PROVE  LET all == Interpreted(m) IN
           /\ all \in Modules
           /\ all.name = m.name /\ all.of = m.of /\ all.funcs = m.funcs
           /\ all.lib = m.lib /\ all.user = m.user /\ all.built = m.built
           /\ all.fns = [name \in DOMAIN m.fns \cup m.funcs |->
                            IF name \in DOMAIN m.fns THEN m.fns[name] ELSE m.of]
<1>1. Interpreted(m) =
         [m EXCEPT !.fns = [name \in DOMAIN m.fns \cup m.funcs |->
             IF name \in DOMAIN m.fns THEN m.fns[name] ELSE m.of]]
  BY DEF Interpreted
<1>2. PICK S \in SUBSET FunctionNames : m.fns \in [S -> Functions]
  BY DEF Modules, Tables
<1>3. [name \in DOMAIN m.fns \cup m.funcs |->
          IF name \in DOMAIN m.fns THEN m.fns[name] ELSE m.of]
       \in [S \cup m.funcs -> Functions]
  BY <1>2 DEF Modules
<1>4. S \cup m.funcs \in SUBSET FunctionNames
  BY <1>2 DEF Modules
<1>5. [name \in DOMAIN m.fns \cup m.funcs |->
          IF name \in DOMAIN m.fns THEN m.fns[name] ELSE m.of] \in Tables
  BY <1>3, <1>4 DEF Tables
<1>6. QED
  BY <1>1, <1>5 DEF Modules
(***************************************************************************)
(* What the actions do to the modules.                                     *)
(***************************************************************************)
\* A thread that compiles is in the middle of a compilation.
LEMMA Compiling ==
    ASSUME TypeOK, NEW t \in Threads, at[t].step # None
    PROVE  /\ at[t] \in Compilations /\ at[t].kind \in Kinds
           /\ Current(t) = mod[t][at[t].kind] /\ Current(t) \in Modules
<1>1. at[t] \in Compilations \cup {Idle} /\ at[t] # Idle
  BY DEF TypeOK, Idle
<1>2. at[t].kind \in Kinds
  BY <1>1 DEF Compilations
<1>3. QED
  BY <1>1, <1>2 DEF Current, TypeOK

\* A compilation begins with a draw.
LEMMA BeginEffect ==
    ASSUME TypeOK, NEW t \in Threads, NEW k \in Kinds, Begin(t, k)
    PROVE  /\ at'[t] = [kind |-> k, step |-> "draw", source |-> FALSE,
                        seen |-> gen]
           /\ \A u \in Threads \ {t} : at'[u] = at[u]
           /\ at' \in [Threads -> Compilations \cup {Idle}]
           /\ made' = made + 1 /\ made' \in 0 .. MaxModules
           /\ DrawsBounded'
           /\ UNCHANGED <<pochi, gen, raced, files, objects, mod, version>>
<1>1. made < MaxModules /\ made' = made + 1
      /\ UNCHANGED <<pochi, gen, raced, files, objects, mod, version>>
  BY DEF Begin
<1>2. [kind |-> k, step |-> "draw", source |-> FALSE, seen |-> gen]
         \in Compilations
  BY DEF Compilations, TypeOK
<1>3. /\ at'[t] = [kind |-> k, step |-> "draw", source |-> FALSE,
                   seen |-> gen]
      /\ \A u \in Threads \ {t} : at'[u] = at[u]
      /\ at' \in [Threads -> Compilations \cup {Idle}]
  BY <1>2 DEF Begin, TypeOK
<1>4. made' \in 0 .. MaxModules
  BY <1>1, ModuleAssumption DEF TypeOK
<1>5. ASSUME NEW u \in Threads, at'[u].step = "draw"
      PROVE  at'[u].seen < made'
  <2>1. made \in Nat /\ gen \in Nat /\ gen <= made
    BY SeenType
  <2>2. CASE u = t
    BY <1>1, <1>3, <2>1, <2>2
  <2>3. CASE u # t
    <3>1. at'[u] = at[u] /\ at[u].step = "draw"
      BY <1>3, <1>5, <2>3
    <3>2. at[u].seen \in Nat /\ at[u].seen < made
      BY <3>1, SeenType
    <3>3. QED
      BY <1>1, <2>1, <3>1, <3>2
  <2>4. QED
    BY <2>2, <2>3
<1>6. DrawsBounded'
  BY <1>1, <1>5 DEF DrawsBounded, TypeOK
<1>7. QED
  BY <1>1, <1>3, <1>4, <1>6

\* The module that the draw was for is constructed with its functions.
LEMMA ConstructEffect ==
    ASSUME TypeOK, NEW t \in Threads, Construct(t)
    PROVE  LET k == at[t].kind IN
           /\ k \in Kinds /\ at[t].step = "draw"
           /\ NewModule(t, k) \in Modules /\ Fresh(NewModule(t, k), t, k)
           /\ Becomes(t, k, NewModule(t, k))
           /\ mod' \in [Threads -> [Kinds -> Modules]]
           /\ at'[t].kind = k /\ at'[t].step = "generate"
           /\ at'[t].source = at[t].source /\ at'[t].seen = at[t].seen
           /\ \A u \in Threads \ {t} : at'[u] = at[u]
           /\ at' \in [Threads -> Compilations \cup {Idle}]
           /\ gen' = at[t].seen + 1 /\ at[t].seen \in Nat
           /\ gen' \in 0 .. MaxModules /\ gen' <= made
           /\ raced' = (raced \/ gen # at[t].seen)
           /\ UNCHANGED <<pochi, made, files, objects, version, needs>>
<1> DEFINE k == at[t].kind
<1>1. at[t].step = "draw" /\ at[t].step # None
      /\ raced' = (raced \/ gen # at[t].seen)
      /\ UNCHANGED <<pochi, made, files, objects, version, needs>>
      /\ at' = [at EXCEPT ![t].step = "generate"]
      /\ gen' = at[t].seen + 1
  BY DEF Construct, None, LibName
<1>2. at[t] \in Compilations /\ k \in Kinds
  BY <1>1, Compiling
<1>3. mod' = [mod EXCEPT ![t][k] = NewModule(t, k)]
  BY DEF Construct
<1> HIDE DEF k
<1>4. NewModule(t, k) \in Modules /\ Fresh(NewModule(t, k), t, k)
  BY <1>1, <1>2, NewModuleType
<1>5. /\ mod' \in [Threads -> [Kinds -> Modules]]
      /\ Becomes(t, k, NewModule(t, k))
  BY <1>2, <1>3, <1>4, ReplaceModule
<1>6. [at[t] EXCEPT !.step = "generate"] \in Compilations
  BY <1>2 DEF Compilations
<1>7. /\ at'[t] = [at[t] EXCEPT !.step = "generate"]
      /\ \A u \in Threads \ {t} : at'[u] = at[u]
      /\ at' \in [Threads -> Compilations \cup {Idle}]
  BY <1>1, <1>6 DEF TypeOK
<1>8. /\ at'[t].kind = at[t].kind /\ at'[t].step = "generate"
      /\ at'[t].source = at[t].source /\ at'[t].seen = at[t].seen
  BY <1>2, <1>7 DEF Compilations
<1>9. /\ at[t].seen \in Nat /\ at[t].seen < made /\ made \in Nat
      /\ made <= MaxModules
  BY <1>1, <1>2, ModuleAssumption DEF Compilations, TypeOK, DrawsBounded
<1>10. gen' \in 0 .. MaxModules /\ gen' <= made
  BY <1>1, <1>9, ModuleAssumption
<1>11. QED
  BY <1>1, <1>2, <1>4, <1>5, <1>7, <1>8, <1>9, <1>10 DEF k

LEMMA SourceEffect ==
    ASSUME TypeOK, NEW t \in Threads, CompileSource(t)
    PROVE  \E m \in Modules :
              /\ m.name = mod[t]["tensor"].name
              /\ m.funcs = mod[t]["tensor"].funcs
              /\ m.of = mod[t]["tensor"].of
              /\ m.lib = mod[t]["tensor"].lib
              /\ m.user = TRUE
              /\ Becomes(t, "tensor", m)
              /\ mod' \in [Threads -> [Kinds -> Modules]]
<1>1. "tensor" \in Kinds
  BY DEF Kinds
<1>2. PICK m : m = [mod[t]["tensor"] EXCEPT !.user = TRUE]
  OBVIOUS
<1>3. mod[t]["tensor"] \in Modules
  BY <1>1 DEF TypeOK
<1>4. /\ m \in Modules /\ m.user = TRUE
      /\ m.name = mod[t]["tensor"].name /\ m.funcs = mod[t]["tensor"].funcs
      /\ m.of = mod[t]["tensor"].of /\ m.lib = mod[t]["tensor"].lib
  BY <1>2, <1>3 DEF Modules
<1>5. mod' = [mod EXCEPT ![t]["tensor"] = m]
  BY <1>2 DEF CompileSource, TypeOK
<1>6. QED
  BY <1>1, <1>4, <1>5, ReplaceModule

LEMMA GenerateEffect ==
    ASSUME TypeOK, NEW t \in Threads, Generate(t)
    PROVE  LET k == at[t].kind
               old == mod[t][k]
           IN  /\ k \in Kinds /\ old \in Modules /\ at[t].step = "generate"
               /\ \/ ~old.user /\ UsePochi(old)
                     /\ Interpreted(old) \in Modules
                     /\ Becomes(t, k, Interpreted(old))
                     /\ mod' \in [Threads -> [Kinds -> Modules]]
                     /\ files' = files
                  \/ ~old.user /\ ~UsePochi(old) /\ mod' = mod
                     /\ files' = [files EXCEPT
                                     ![old.name] = <<Text("functions", old)>>]
                  \/ old.user /\ mod' = mod /\ files' = files
               /\ at' = [at EXCEPT ![t].step = "decide"]
               /\ UNCHANGED <<pochi, gen, made, raced, objects, version, needs>>
<1>1. at[t].step = "generate" /\ at[t].step # None
      /\ at' = [at EXCEPT ![t].step = "decide"]
      /\ UNCHANGED <<pochi, gen, made, raced, objects, version, needs>>
  BY DEF Generate, Step, None, names
<1> DEFINE k == at[t].kind
           old == mod[t][k]
<1>2. k \in Kinds /\ old \in Modules /\ Current(t) = old
  BY <1>1, Compiling
<1> HIDE DEF k
<1>3. CASE ~old.user /\ UsePochi(old)
  <2>1. mod' = [mod EXCEPT ![t][k] = Interpreted(old)] /\ files' = files
    BY <1>2, <1>3 DEF Generate, k
  <2>2. Interpreted(old) \in Modules
    BY <1>2, InterpretedType
  <2>3. QED
    BY <1>1, <1>2, <1>3, <2>1, <2>2, ReplaceModule DEF k
<1>4. CASE ~old.user /\ ~UsePochi(old)
  BY <1>1, <1>2, <1>4 DEF Generate, k
<1>5. CASE old.user
  BY <1>1, <1>2, <1>5 DEF Generate, k
<1>6. QED
  BY <1>3, <1>4, <1>5

LEMMA LoadEffect ==
    ASSUME TypeOK, NEW t \in Threads, Load(t)
    PROVE  \E m \in Modules :
              LET k == at[t].kind IN
              /\ k \in Kinds /\ at[t].step = "load"
              /\ m.name = mod[t][k].name /\ m.funcs = mod[t][k].funcs
              /\ m.of = mod[t][k].of /\ m.user = mod[t][k].user
              /\ m.built = mod[t][k].built /\ m.fns = mod[t][k].fns
              /\ m.lib = objects[mod[t][k].name]
              /\ Becomes(t, k, m)
              /\ mod' \in [Threads -> [Kinds -> Modules]]
<1>1. at[t].step = "load" /\ at[t].step # None
  BY DEF Load, None
<1> DEFINE k == at[t].kind
<1>2. k \in Kinds /\ mod[t][k] \in Modules /\ Current(t) = mod[t][k]
  BY <1>1, Compiling
<1>3. PICK m : m = [mod[t][k] EXCEPT !.lib = objects[mod[t][k].name]]
  OBVIOUS
<1>4. mod' = [mod EXCEPT ![t][k] = m]
  BY <1>2, <1>3 DEF Load, TypeOK
<1> HIDE DEF k
<1>5. objects[mod[t][k].name] \in Seq(Texts)
  BY <1>2 DEF TypeOK, Modules
<1>6. /\ m \in Modules
      /\ m.name = mod[t][k].name /\ m.funcs = mod[t][k].funcs
      /\ m.of = mod[t][k].of /\ m.user = mod[t][k].user
      /\ m.built = mod[t][k].built /\ m.fns = mod[t][k].fns
      /\ m.lib = objects[mod[t][k].name]
  BY <1>2, <1>3, <1>5 DEF Modules
<1>7. Becomes(t, k, m) /\ mod' \in [Threads -> [Kinds -> Modules]]
  BY <1>2, <1>4, <1>6, ReplaceModule
<1>8. QED
  BY <1>1, <1>2, <1>6, <1>7 DEF k
(***************************************************************************)
(* Every action keeps the types.                                           *)
(***************************************************************************)
LEMMA TextType ==
    ASSUME NEW m \in Modules, NEW what \in {"functions", "shims"}
    PROVE  Text(what, m) \in Texts /\ Text(what, m).of = m.of
                                   /\ Text(what, m).what = what
BY DEF Text, Texts, Modules

\* The other steps of a thread end no draw and begin none.
LEMMA NoDraw ==
    ASSUME TypeOK, UNCHANGED <<gen, made>>,
           \A u \in Threads : at'[u] = at[u] \/ at'[u].step # "draw"
    PROVE  DrawsBounded'
BY DEF TypeOK, DrawsBounded

LEMMA NextTypeOK == TypeOK /\ [Next]_vars => TypeOK'
<1> SUFFICES ASSUME TypeOK, [Next]_vars PROVE TypeOK'
  OBVIOUS
<1> DEFINE Places == /\ at' \in [Threads -> Compilations \cup {Idle}]
                     /\ \A u \in Threads :
                           at'[u] = at[u] \/ at'[u].step # "draw"
<1>1. ASSUME NEW t \in Threads, NEW to \in {"generate", "decide", "gcc", "load"},
             at[t].step # None, at' = [at EXCEPT ![t].step = to]
      PROVE  Places
  <2>1. at[t] \in Compilations
    BY <1>1, Compiling
  <2>2. /\ [at[t] EXCEPT !.step = to] \in Compilations
        /\ [at[t] EXCEPT !.step = to].step = to
    BY <2>1 DEF Compilations
  <2>3. at'[t].step # "draw" /\ \A u \in Threads \ {t} : at'[u] = at[u]
    BY <1>1, <2>2 DEF TypeOK
  <2>4. QED
    BY <1>1, <2>2, <2>3 DEF TypeOK
<1>2. ASSUME NEW t \in Threads, at' = [at EXCEPT ![t] = Idle] PROVE Places
  BY <1>2 DEF TypeOK, Idle, None
<1>3. ASSUME NEW t \in Threads,
             CompileTensor(t) \/ CompileKernel(t) \/ CompileHelpers(t)
      PROVE  TypeOK'
  <2>1. PICK k \in Kinds : Begin(t, k)
    BY <1>3 DEF CompileTensor, CompileKernel, CompileHelpers, Kinds
  <2>2. needs' \in [Threads -> BOOLEAN]
    BY <1>3 DEF CompileTensor, CompileKernel, CompileHelpers, TypeOK
  <2>3. QED
    BY <2>1, <2>2, BeginEffect DEF TypeOK
<1>13. ASSUME NEW t \in Threads, Construct(t) PROVE TypeOK'
  <2>1. /\ mod' \in [Threads -> [Kinds -> Modules]]
        /\ at' \in [Threads -> Compilations \cup {Idle}]
        /\ gen' \in 0 .. MaxModules /\ gen' <= made
        /\ at'[t].step = "generate"
        /\ \A u \in Threads \ {t} : at'[u] = at[u]
        /\ raced' = (raced \/ gen # at[t].seen)
        /\ UNCHANGED <<pochi, made, files, objects, version, needs>>
    BY <1>13, ConstructEffect
  <2>2. DrawsBounded'
    BY <2>1 DEF TypeOK, DrawsBounded
  <2>3. QED
    BY <2>1, <2>2 DEF TypeOK
<1>4. ASSUME NEW t \in Threads, CompileSource(t) PROVE TypeOK'
  <2>1. mod' \in [Threads -> [Kinds -> Modules]]
    BY <1>4, SourceEffect
  <2>2. [kind |-> "tensor", step |-> "generate", source |-> TRUE, seen |-> 0]
           \in Compilations
    BY ModuleAssumption DEF Compilations, Kinds
  <2>3. /\ at' \in [Threads -> Compilations \cup {Idle}]
        /\ \A u \in Threads : at'[u] = at[u] \/ at'[u].step # "draw"
        /\ UNCHANGED <<pochi, gen, made, raced, files, objects, version, needs>>
    BY <1>4, <2>2 DEF CompileSource, names, TypeOK
  <2>4. QED
    BY <2>1, <2>3, NoDraw DEF TypeOK
<1>5. ASSUME NEW t \in Threads, Generate(t) PROVE TypeOK'
  <2> DEFINE old == mod[t][at[t].kind]
  <2>1. /\ old \in Modules /\ at[t].step = "generate"
        /\ at' = [at EXCEPT ![t].step = "decide"]
        /\ UNCHANGED <<pochi, gen, made, raced, objects, version, needs>>
        /\ mod' \in [Threads -> [Kinds -> Modules]]
        /\ \/ files' = files
           \/ files' = [files EXCEPT ![old.name] = <<Text("functions", old)>>]
    BY <1>5, GenerateEffect DEF TypeOK
  <2>2. Places
    BY <1>1, <2>1 DEF None
  <2> HIDE DEF old
  <2>3. <<Text("functions", old)>> \in Seq(Texts)
    BY <2>1, TextType
  <2>4. files' \in [0 .. MaxModules -> Seq(Texts)]
    BY <2>1, <2>3 DEF TypeOK
  <2>5. QED
    BY <2>1, <2>2, <2>4, NoDraw DEF TypeOK
<1>6. ASSUME NEW t \in Threads, DecidePochi(t) \/ Load(t) PROVE TypeOK'
  <2>1. /\ at' = [at EXCEPT ![t] = Idle]
        /\ needs' \in [Threads -> BOOLEAN]
        /\ UNCHANGED <<pochi, gen, made, raced, files, objects, version>>
    BY <1>6 DEF DecidePochi, Load, Returned, names, TypeOK
  <2>2. mod' \in [Threads -> [Kinds -> Modules]]
    BY <1>6, LoadEffect DEF DecidePochi, TypeOK
  <2>3. QED
    BY <1>2, <2>1, <2>2, NoDraw DEF TypeOK
<1>7. ASSUME NEW t \in Threads, DecideC(t) \/ Gcc(t) PROVE TypeOK'
  <2>1. at[t].step \in {"decide", "gcc"} /\ at[t].step # None
    BY <1>7 DEF DecideC, Gcc, Step, None
  <2>2. PICK old \in Modules : old = Current(t)
    BY <2>1, Compiling
  <2>3. Places
    BY <1>1, <1>7, <2>1 DEF DecideC, Gcc, Step
  <2>4. old.name \in 0 .. MaxModules
    BY <2>2 DEF Modules
  <2>5. files[old.name] \in Seq(Texts) /\ Text("shims", old) \in Texts
    BY <2>4, TextType DEF TypeOK
  <2>6. Append(files[old.name], Text("shims", old)) \in Seq(Texts)
    BY <2>5, AppendProperties
  <2>7. /\ \/ files' = files
           \/ files' = [files EXCEPT ![old.name] =
                           Append(files[old.name], Text("shims", old))]
        /\ objects' = objects
              \/ objects' = [objects EXCEPT ![old.name] = files[old.name]]
        /\ UNCHANGED <<pochi, gen, made, raced, mod, version, needs>>
    BY <1>7, <2>2, <2>4 DEF DecideC, Gcc, names, TypeOK
  <2>8. /\ files' \in [0 .. MaxModules -> Seq(Texts)]
        /\ objects' \in [0 .. MaxModules -> Seq(Texts)]
    BY <2>4, <2>5, <2>6, <2>7 DEF TypeOK
  <2>9. QED
    BY <2>3, <2>7, <2>8, NoDraw DEF TypeOK
<1>8. ASSUME NEW t \in Threads, GccFails(t) PROVE TypeOK'
  <2>1. Places
    BY <1>2, <1>8 DEF GccFails
  <2>2. QED
    BY <1>8, <2>1, NoDraw DEF GccFails, names, TypeOK
<1>9. ASSUME NEW t \in Threads, Reassign(t) PROVE TypeOK'
  <2>1. UNCHANGED <<gen, made, at>>
    BY <1>9 DEF Reassign, names
  <2>2. QED
    BY <1>9, <2>1, NoDraw DEF Reassign, names, TypeOK
<1>10. CASE SetPochiState
  <2>1. UNCHANGED <<gen, made, at>>
    BY <1>10 DEF SetPochiState, names
  <2>2. QED
    BY <1>10, <2>1, NoDraw DEF SetPochiState, names, TypeOK
<1>11. CASE UNCHANGED vars
  <2>1. UNCHANGED <<gen, made, at>>
    BY <1>11 DEF vars, names
  <2>2. QED
    BY <1>11, <2>1, NoDraw DEF vars, names, TypeOK
<1>12. QED
  BY <1>3, <1>13, <1>4, <1>5, <1>6, <1>7, <1>8, <1>9, <1>10, <1>11 DEF Next

(***************************************************************************)
(* Every action leaves the libraries what their modules are.               *)
(***************************************************************************)
\* An action on a module that already has its name writes to its own files.
LEMMA KeepsLibrary ==
    ASSUME TypeOK, Separate, TypeOK', NEW t \in Threads, NEW k \in Kinds,
           NEW m \in Modules, Becomes(t, k, m), gen' = gen,
           \A u \in Threads : at'[u].seen = at[u].seen \/ at'[u].seen = 0,
           m.name = mod[t][k].name, m.of = mod[t][k].of,
           m.funcs = mod[t][k].funcs,
           \A n \in 0 .. MaxModules : n # m.name \/ n = 0 =>
              files'[n] = files[n] /\ objects'[n] = objects[n],
           OwnText(files'[m.name], m), OwnText(objects'[m.name], m),
           OwnText(m.lib, m)
    PROVE  Separate'
<1>1. /\ mod'[t][k] = m
      /\ \A u \in Threads, l \in Kinds :
            u # t \/ l # k => mod'[u][l] = mod[u][l]
  BY DEF Becomes
<1>2. ASSUME NEW u \in Threads, NEW l \in Kinds
      PROVE  /\ mod'[u][l].name = mod[u][l].name
             /\ mod'[u][l].of = mod[u][l].of
             /\ mod'[u][l].funcs = mod[u][l].funcs
             /\ mod[u][l].name \in 0 .. MaxModules
  <2>1. mod[u][l] \in Modules
    BY DEF TypeOK
  <2>2. QED
    BY <1>1, <2>1 DEF Modules
<1>3. NamesDrawn' /\ NamesDiffer'
  BY <1>2 DEF Separate, NamesDrawn, NamesDiffer
<1>4. NamesFresh'
  <2> SUFFICES ASSUME NEW n \in 0 .. MaxModules, n = 0 \/ n > gen
               PROVE  files'[n] = <<>> /\ objects'[n] = <<>>
    BY DEF NamesFresh
  <2>1. n # m.name \/ n = 0
    BY <1>2 DEF Separate, NamesDrawn, TypeOK
  <2>2. QED
    BY <2>1 DEF Separate, NamesFresh
<1>5. TextsOwn'
  <2> SUFFICES ASSUME NEW u \in Threads, NEW l \in Kinds
               PROVE  /\ OwnText(files'[mod'[u][l].name], mod'[u][l])
                      /\ OwnText(objects'[mod'[u][l].name], mod'[u][l])
                      /\ OwnText(mod'[u][l].lib, mod'[u][l])
    BY DEF TextsOwn, OwnText
  <2>1. CASE u = t /\ l = k
    BY <1>1, <2>1
  <2>2. CASE u # t \/ l # k
    <3>1. mod'[u][l] = mod[u][l]
      BY <1>1, <2>2
    <3>2. mod[u][l].name # m.name \/ mod[u][l].name = 0
      BY <2>2 DEF Separate, NamesDiffer
    <3>3. /\ files'[mod[u][l].name] = files[mod[u][l].name]
          /\ objects'[mod[u][l].name] = objects[mod[u][l].name]
      BY <1>2, <3>2
    <3>4. QED
      BY <3>1, <3>3 DEF Separate, TextsOwn
  <2>3. QED
    BY <2>1, <2>2
<1>6. SeenReached'
  <2> SUFFICES ASSUME NEW u \in Threads PROVE at'[u].seen <= gen'
    BY DEF SeenReached
  <2>1. gen \in Nat /\ at[u].seen <= gen
    BY SeenType DEF Separate, SeenReached
  <2>2. at'[u].seen = at[u].seen \/ at'[u].seen = 0
    OBVIOUS
  <2>3. QED
    BY <2>1, <2>2
<1>7. QED
  BY <1>3, <1>4, <1>5, <1>6 DEF Separate

\* A new module has a name that nobody has written to.
LEMMA ConstructLibrary ==
    ASSUME TypeOK, Separate, TypeOK', NEW t \in Threads, Construct(t), ~raced'
    PROVE  Separate'
<1>1. PICK k \in Kinds, m \in Modules : k = at[t].kind /\ m = NewModule(t, k)
  BY ConstructEffect
<1>2. /\ Becomes(t, k, m) /\ Fresh(m, t, k)
      /\ gen' = gen + 1 /\ gen' \in 0 .. MaxModules /\ at[t].seen = gen
      /\ at'[t].seen = gen /\ \A u \in Threads \ {t} : at'[u] = at[u]
      /\ UNCHANGED <<files, objects>>
  BY <1>1, ConstructEffect DEF TypeOK
<1>3. /\ mod'[t][k] = m
      /\ \A u \in Threads, l \in Kinds :
            u # t \/ l # k => mod'[u][l] = mod[u][l]
  BY <1>2 DEF Becomes
<1>4. ASSUME NEW u \in Threads, NEW l \in Kinds
      PROVE  mod[u][l].name \in 0 .. MaxModules /\ mod[u][l].name <= gen
  BY DEF Separate, TypeOK, Modules, NamesDrawn
<1>5. gen \in Nat
  BY DEF TypeOK
<1>6. m.name = gen + 1 /\ m.lib = <<>>
  BY <1>2 DEF Fresh
<1>7. NamesDrawn'
  <2> SUFFICES ASSUME NEW u \in Threads, NEW l \in Kinds
               PROVE  /\ mod'[u][l].name <= gen'
                      /\ mod'[u][l].name = 0 => mod'[u][l].funcs = {}
    BY DEF NamesDrawn
  <2>1. CASE u = t /\ l = k
    BY <1>2, <1>3, <1>5, <1>6, <2>1
  <2>2. CASE u # t \/ l # k
    BY <1>2, <1>3, <1>4, <1>5, <2>2 DEF Separate, NamesDrawn
  <2>3. QED
    BY <2>1, <2>2
<1>8. NamesDiffer'
  <2> SUFFICES ASSUME NEW u \in Threads, NEW v \in Threads, NEW l \in Kinds,
                      NEW j \in Kinds, mod'[u][l].name = mod'[v][j].name,
                      mod'[u][l].name # 0
               PROVE  u = v /\ l = j
    BY DEF NamesDiffer
  <2>1. CASE (u # t \/ l # k) /\ (v # t \/ j # k)
    BY <1>3, <2>1 DEF Separate, NamesDiffer
  <2>2. CASE u = t /\ l = k /\ (v # t \/ j # k)
    BY <1>3, <1>4, <1>5, <1>6, <2>2
  <2>3. CASE (u # t \/ l # k) /\ v = t /\ j = k
    BY <1>3, <1>4, <1>5, <1>6, <2>3
  <2>4. QED
    BY <2>1, <2>2, <2>3
<1>9. NamesFresh'
  BY <1>2, <1>5 DEF Separate, NamesFresh
<1>10. TextsOwn'
  <2> SUFFICES ASSUME NEW u \in Threads, NEW l \in Kinds
               PROVE  /\ OwnText(files'[mod'[u][l].name], mod'[u][l])
                      /\ OwnText(objects'[mod'[u][l].name], mod'[u][l])
                      /\ OwnText(mod'[u][l].lib, mod'[u][l])
    BY DEF TextsOwn, OwnText
  <2>1. CASE u = t /\ l = k
    <3>1. files[m.name] = <<>> /\ objects[m.name] = <<>>
      BY <1>2, <1>5, <1>6 DEF Separate, NamesFresh
    <3>2. OwnText(<<>>, m)
      BY EmptySeq DEF OwnText
    <3>3. QED
      BY <1>2, <1>3, <1>6, <2>1, <3>1, <3>2
  <2>2. CASE u # t \/ l # k
    BY <1>2, <1>3, <2>2 DEF Separate, TextsOwn
  <2>3. QED
    BY <2>1, <2>2
<1>11. SeenReached'
  <2> SUFFICES ASSUME NEW u \in Threads PROVE at'[u].seen <= gen'
    BY DEF SeenReached
  <2>1. CASE u = t
    BY <1>2, <1>5, <2>1
  <2>2. CASE u # t
    <3>1. at[u].seen \in Nat /\ at[u].seen <= gen
      BY SeenType DEF Separate, SeenReached
    <3>2. QED
      BY <1>2, <1>5, <2>2, <3>1
  <2>3. QED
    BY <2>1, <2>2
<1>12. QED
  BY <1>7, <1>8, <1>9, <1>10, <1>11 DEF Separate
\* A module appends its own texts to its own file.
LEMMA OwnTexts ==
    ASSUME NEW m \in Modules, NEW texts \in Seq(Texts),
           NEW what \in {"functions", "shims"}, OwnText(texts, m)
    PROVE  OwnText(Append(texts, Text(what, m)), m)
<1> SUFFICES ASSUME NEW i \in 1 .. Len(Append(texts, Text(what, m)))
             PROVE  Append(texts, Text(what, m))[i].of = m.of
  BY DEF OwnText
<1>1. Text(what, m) \in Texts /\ Text(what, m).of = m.of
  BY TextType
<1>2. /\ Len(Append(texts, Text(what, m))) = Len(texts) + 1
      /\ Append(texts, Text(what, m))[Len(texts) + 1] = Text(what, m)
      /\ \A j \in 1 .. Len(texts) :
            Append(texts, Text(what, m))[j] = texts[j]
  BY <1>1, AppendProperties
<1>3. Len(texts) \in Nat
  BY LenProperties
<1>4. CASE i = Len(texts) + 1
  BY <1>1, <1>2, <1>4
<1>5. CASE i # Len(texts) + 1
  <2>1. i \in 1 .. Len(texts)
    BY <1>2, <1>3, <1>5
  <2>2. QED
    BY <1>2, <2>1 DEF OwnText
<1>6. QED
  BY <1>4, <1>5

LEMMA NextSeparate ==
    ASSUME TypeOK, Separate, [Next]_vars, ~raced'
    PROVE  Separate'
<1>1. TypeOK /\ TypeOK'
  BY NextTypeOK
\* No step but a draw's changes what a draw has seen.
<1> DEFINE Seen == \A u \in Threads : at'[u].seen = at[u].seen \/ at'[u].seen = 0
<1>16. ASSUME NEW t \in Threads, NEW to, at[t].step # None,
              at' = [at EXCEPT ![t].step = to]
       PROVE  Seen
  <2>1. at[t] \in Compilations
    BY <1>1, <1>16, Compiling
  <2>2. at'[t].seen = at[t].seen /\ \A u \in Threads \ {t} : at'[u] = at[u]
    BY <1>1, <1>16, <2>1 DEF TypeOK, Compilations
  <2>3. QED
    BY <2>2
<1>17. ASSUME NEW t \in Threads, at' = [at EXCEPT ![t] = Idle]
       PROVE  Seen
  BY <1>1, <1>17 DEF TypeOK, Idle
<1> HIDE DEF Seen
<1>2. ASSUME NEW u \in Threads, NEW l \in Kinds
      PROVE  /\ mod[u][l] \in Modules /\ mod[u][l].name \in 0 .. MaxModules
             /\ OwnText(files[mod[u][l].name], mod[u][l])
             /\ OwnText(objects[mod[u][l].name], mod[u][l])
             /\ OwnText(mod[u][l].lib, mod[u][l])
  BY <1>1 DEF Separate, TypeOK, Modules, TextsOwn
\* Only the fields that say what a module is for matter to its texts.
<1>3. ASSUME NEW texts, NEW m \in Modules, NEW p \in Modules, m.of = p.of,
             OwnText(texts, p)
      PROVE  OwnText(texts, m)
  BY <1>3 DEF OwnText
<1>4. ASSUME NEW t \in Threads, NEW k \in Kinds, NEW m \in Modules,
             Becomes(t, k, m), m.name = mod[t][k].name, m.of = mod[t][k].of,
             m.funcs = mod[t][k].funcs, m.lib = mod[t][k].lib, Seen,
             UNCHANGED <<gen, files, objects>>
      PROVE  Separate'
  <2>1. OwnText(files'[m.name], m) /\ OwnText(objects'[m.name], m)
        /\ OwnText(m.lib, m)
    BY <1>2, <1>3, <1>4
  <2>2. QED
    BY <1>1, <1>4, <2>1, KeepsLibrary DEF Seen
<1>5. ASSUME UNCHANGED <<gen, files, objects, mod>>, Seen PROVE Separate'
  <2>1. ASSUME NEW u \in Threads PROVE at'[u].seen <= gen'
    <3>1. gen \in Nat /\ at[u].seen <= gen
      BY SeenType DEF Separate, SeenReached
    <3>2. at'[u].seen = at[u].seen \/ at'[u].seen = 0
      BY <1>5 DEF Seen
    <3>3. QED
      BY <1>5, <3>1, <3>2
  <2>2. QED
    BY <1>5, <2>1 DEF Separate, NamesDrawn, NamesDiffer, NamesFresh, TextsOwn,
       SeenReached
<1>6. ASSUME NEW t \in Threads,
             CompileTensor(t) \/ CompileKernel(t) \/ CompileHelpers(t)
      PROVE  Separate'
  <2>1. PICK k \in Kinds : Begin(t, k)
    BY <1>6 DEF CompileTensor, CompileKernel, CompileHelpers, Kinds
  <2>2. /\ at'[t] = [kind |-> k, step |-> "draw", source |-> FALSE,
                      seen |-> gen]
        /\ \A u \in Threads \ {t} : at'[u] = at[u]
        /\ UNCHANGED <<gen, files, objects, mod>>
    BY <1>1, <2>1, BeginEffect
  <2>5. gen \in Nat /\ at'[t].seen = gen
    BY <2>2, SeenType
  <2>3. SeenReached'
    BY <2>2, <2>5 DEF Separate, SeenReached
  <2>4. QED
    BY <1>1, <2>2, <2>3 DEF Separate, NamesDrawn, NamesDiffer, NamesFresh,
       TextsOwn
<1>18. ASSUME NEW t \in Threads, Construct(t) PROVE Separate'
  BY <1>1, <1>18, ConstructLibrary
<1>7. ASSUME NEW t \in Threads, CompileSource(t) PROVE Separate'
  <2>1. Seen
    BY <1>1, <1>7 DEF CompileSource, TypeOK, Seen
  <2>2. UNCHANGED <<gen, files, objects>>
    BY <1>7 DEF CompileSource, names
  <2>3. QED
    BY <1>1, <1>4, <1>7, <2>1, <2>2, SourceEffect DEF Kinds
<1>8. ASSUME NEW t \in Threads, Generate(t) PROVE Separate'
  <2> DEFINE k == at[t].kind
             old == mod[t][k]
  <2>1. /\ k \in Kinds /\ old \in Modules
        /\ \/ Interpreted(old) \in Modules /\ Becomes(t, k, Interpreted(old))
              /\ files' = files
           \/ ~UsePochi(old) /\ mod' = mod
              /\ files' = [files EXCEPT ![old.name] = <<Text("functions", old)>>]
           \/ mod' = mod /\ files' = files
        /\ UNCHANGED <<gen, objects>>
    BY <1>1, <1>8, GenerateEffect
  <2>5. Seen
    <3>1. at[t].step = "generate" /\ at' = [at EXCEPT ![t].step = "decide"]
      BY <1>1, <1>8, GenerateEffect
    <3>2. QED
      BY <1>16, <3>1 DEF None
  <2> HIDE DEF k
  <2>2. CASE Interpreted(old) \in Modules /\ Becomes(t, k, Interpreted(old))
              /\ files' = files
    <3>1. /\ Interpreted(old).name = old.name /\ Interpreted(old).of = old.of
          /\ Interpreted(old).funcs = old.funcs
          /\ Interpreted(old).lib = old.lib
      BY <2>1, InterpretedType
    <3>2. QED
      BY <1>4, <2>1, <2>2, <2>5, <3>1
  <2>3. CASE ~UsePochi(old) /\ mod' = mod
              /\ files' = [files EXCEPT ![old.name] = <<Text("functions", old)>>]
    <3>1. old.name \in 0 .. MaxModules /\ old.name # 0
      BY <1>2, <2>1, <2>3 DEF Separate, NamesDrawn, UsePochi
    <3>2. files'[old.name] = <<Text("functions", old)>>
      BY <1>1, <2>3, <3>1 DEF TypeOK
    <3>3. \A n \in 0 .. MaxModules : n # old.name =>
             files'[n] = files[n] /\ objects'[n] = objects[n]
      BY <1>1, <2>1, <2>3 DEF TypeOK
    <3>4. /\ OwnText(files'[old.name], old) /\ OwnText(objects'[old.name], old)
          /\ OwnText(old.lib, old)
      <4>1. OwnText(<<Text("functions", old)>>, old)
        <5>1. "functions" \in {"functions", "shims"}
          OBVIOUS
        <5>2. Text("functions", old).of = old.of
          BY <2>1, <5>1, TextType
        <5>3. QED
          BY <5>2 DEF OwnText
      <4>2. QED
        BY <1>2, <2>1, <3>2, <4>1
    <3>5. Becomes(t, k, old)
      BY <2>3 DEF Becomes
    <3>6. QED
      BY <1>1, <2>1, <2>5, <3>1, <3>3, <3>4, <3>5, KeepsLibrary DEF Seen
  <2>4. QED
    BY <1>5, <2>1, <2>2, <2>3, <2>5
<1>9. ASSUME NEW t \in Threads, DecideC(t) PROVE Separate'
  <2> DEFINE k == at[t].kind
             old == mod[t][k]
  <2>1. k \in Kinds /\ old \in Modules /\ Current(t) = old
    BY <1>1, <1>9, Compiling DEF DecideC, Step, None
  <2>8. Seen
    <3>1. at[t].step = "decide" /\ \E to : at' = [at EXCEPT ![t].step = to]
      BY <1>9 DEF DecideC, Step
    <3>2. QED
      BY <1>16, <3>1 DEF None
  <2> HIDE DEF k
  <2>2. old.name \in 0 .. MaxModules /\ old.name # 0
    BY <1>2, <1>9, <2>1 DEF DecideC, Separate, NamesDrawn, UsePochi
  <2>3. /\ mod' = mod /\ gen' = gen /\ objects' = objects
        /\ files'[old.name] = Append(files[old.name], Text("shims", old))
        /\ \A n \in 0 .. MaxModules : n # old.name => files'[n] = files[n]
    BY <1>1, <1>9, <2>1, <2>2 DEF DecideC, names, TypeOK
  <2>4. files[old.name] \in Seq(Texts)
    BY <1>1, <2>2 DEF TypeOK
  <2>5. /\ OwnText(files'[old.name], old) /\ OwnText(objects'[old.name], old)
        /\ OwnText(old.lib, old)
    <3>1. OwnText(Append(files[old.name], Text("shims", old)), old)
      <4>1. OwnText(files[old.name], old)
        BY <1>2, <2>1
      <4>2. "shims" \in {"functions", "shims"}
        OBVIOUS
      <4>3. QED
        BY <2>1, <2>4, <4>1, <4>2, OwnTexts
    <3>2. QED
      BY <1>2, <2>1, <2>3, <3>1
  <2>6. Becomes(t, k, old)
    BY <2>3 DEF Becomes
  <2>7. QED
    BY <1>1, <2>1, <2>2, <2>3, <2>5, <2>6, <2>8, KeepsLibrary DEF Seen
<1>10. ASSUME NEW t \in Threads, Gcc(t) PROVE Separate'
  <2> DEFINE k == at[t].kind
             old == mod[t][k]
  <2>1. k \in Kinds /\ old \in Modules /\ Current(t) = old
    BY <1>1, <1>10, Compiling DEF Gcc, Step, None
  <2>8. Seen
    <3>1. at[t].step = "gcc" /\ \E to : at' = [at EXCEPT ![t].step = to]
      BY <1>10 DEF Gcc, Step
    <3>2. QED
      BY <1>16, <3>1 DEF None
  <2> HIDE DEF k
  <2>2. old.name \in 0 .. MaxModules
    BY <1>2, <2>1
  <2>3. /\ mod' = mod /\ gen' = gen /\ files' = files
        /\ objects'[old.name] = files[old.name]
        /\ \A n \in 0 .. MaxModules : n # old.name => objects'[n] = objects[n]
    BY <1>1, <1>10, <2>1, <2>2 DEF Gcc, names, TypeOK
  <2>4. objects'[0] = objects[0]
    <3>1. 0 \in 0 .. MaxModules
      BY ModuleAssumption
    <3>2. files[0] = <<>> /\ objects[0] = <<>>
      BY <3>1 DEF Separate, NamesFresh
    <3>3. QED
      BY <2>3, <3>1, <3>2
  <2>5. /\ OwnText(files'[old.name], old) /\ OwnText(objects'[old.name], old)
        /\ OwnText(old.lib, old)
    BY <1>2, <2>1, <2>3
  <2>6. Becomes(t, k, old)
    BY <2>3 DEF Becomes
  <2>7. QED
    BY <1>1, <2>1, <2>2, <2>3, <2>4, <2>5, <2>6, <2>8, KeepsLibrary DEF Seen
<1>11. ASSUME NEW t \in Threads, Load(t) PROVE Separate'
  <2>1. PICK m \in Modules, k \in Kinds :
              /\ m.name = mod[t][k].name /\ m.funcs = mod[t][k].funcs
              /\ m.of = mod[t][k].of /\ m.lib = objects[mod[t][k].name]
              /\ Becomes(t, k, m)
    BY <1>1, <1>11, LoadEffect
  <2>2. UNCHANGED <<gen, files, objects>> /\ at' = [at EXCEPT ![t] = Idle]
    BY <1>11 DEF Load, Returned, names
  <2>3. /\ OwnText(files'[m.name], m) /\ OwnText(objects'[m.name], m)
        /\ OwnText(m.lib, m)
    BY <1>2, <1>3, <2>1, <2>2
  <2>4. Seen
    BY <1>17, <2>2
  <2>5. QED
    BY <1>1, <2>1, <2>2, <2>3, <2>4, KeepsLibrary DEF Seen
<1>12. ASSUME NEW t \in Threads, DecidePochi(t) \/ GccFails(t)
       PROVE  Separate'
  <2>1. at' = [at EXCEPT ![t] = Idle] /\ UNCHANGED <<gen, files, objects, mod>>
    BY <1>12 DEF DecidePochi, GccFails, Returned, names
  <2>2. QED
    BY <1>5, <1>17, <2>1
<1>13. ASSUME SetPochiState \/ (\E t \in Threads : Reassign(t)) \/ UNCHANGED vars
       PROVE  Separate'
  <2>1. UNCHANGED <<gen, files, objects, mod, at>>
    BY <1>13 DEF SetPochiState, Reassign, vars, names
  <2>2. Seen
    BY <2>1 DEF Seen
  <2>3. QED
    BY <1>5, <2>1, <2>2
<1>14. QED
  BY <1>6, <1>7, <1>8, <1>9, <1>10, <1>11, <1>12, <1>13, <1>18 DEF Next

\* Once two draws have overlapped, only the types are left.
LEMMA NextLibraryInvariant ==
    LibraryInvariant /\ [Next]_vars => LibraryInvariant'
<1> SUFFICES ASSUME LibraryInvariant, [Next]_vars PROVE LibraryInvariant'
  OBVIOUS
<1>1. TypeOK /\ TypeOK'
  BY NextTypeOK DEF LibraryInvariant
<1>2. raced => raced'
  BY DEF Next, vars, names, SetPochiState, CompileTensor, CompileKernel,
     CompileHelpers, Begin, CompileSource, Construct, Reassign, Generate,
     DecidePochi, DecideC, Gcc, GccFails, Load
<1>3. CASE raced'
  BY <1>1, <1>3 DEF LibraryInvariant
<1>4. CASE ~raced'
  BY <1>1, <1>2, <1>4, NextSeparate DEF LibraryInvariant
<1>5. QED
  BY <1>3, <1>4

LEMMA InitLibraryInvariant == Init => LibraryInvariant
<1> SUFFICES ASSUME Init PROVE LibraryInvariant
  OBVIOUS
<1>1. /\ <<>> \in Seq(Texts) /\ Len(<<>>) = 0 /\ 0 \in 0 .. MaxModules
      /\ {} \in SUBSET FunctionNames /\ NoFunction(None) \in Functions
  BY EmptySeq, ModuleAssumption DEF NoFunction, Of, Functions, None
<1>2. <<>> \in Tables
  <2>1. <<>> = [x \in {} |-> 0]
    OBVIOUS
  <2>2. [x \in {} |-> 0] \in [{} -> Functions]
    OBVIOUS
  <2>3. QED
    BY <2>1, <2>2 DEF Tables
<1>3. /\ EmptyModule(0) \in Modules
      /\ EmptyModule(0).name = 0 /\ EmptyModule(0).funcs = {}
      /\ EmptyModule(0).lib = <<>>
  BY <1>1, <1>2 DEF EmptyModule, Modules
<1>4. TypeOK
  <2>1. DrawsBounded
    BY DEF Init, DrawsBounded, Idle, None
  <2>2. QED
    BY <1>1, <1>3, <2>1 DEF Init, TypeOK
<1>5. /\ \A t \in Threads, k \in Kinds : mod[t][k] = EmptyModule(0)
      /\ \A n \in 0 .. MaxModules : files[n] = <<>> /\ objects[n] = <<>>
      /\ gen = 0 /\ \A t \in Threads : at[t] = Idle
  BY DEF Init
<1>6. NamesDrawn /\ NamesDiffer /\ NamesFresh
  BY <1>3, <1>5 DEF NamesDrawn, NamesDiffer, NamesFresh
<1>7. TextsOwn
  BY <1>1, <1>3, <1>5 DEF TextsOwn, OwnText
<1>8. SeenReached
  BY <1>5 DEF SeenReached, Idle
<1>9. QED
  BY <1>4, <1>6, <1>7, <1>8 DEF LibraryInvariant, Separate

(***************************************************************************)
(* What a call runs.                                                       *)
(***************************************************************************)
\* Is a module of kind k that was built as m was interpreted?
Interp(m, k) == k # "helper" /\ m.built
Table(m, k) ==
    \A name \in Names(k) : name \in DOMAIN m.fns /\ m.fns[name] = m.of

\* How far the compilation of t has come with a module that has functions.
InProgress(t) ==
    LET k == at[t].kind
        m == mod[t][k]
    IN  k \in Kinds /\ ~m.user /\ at[t].step # "draw" =>
          /\ m.funcs = Names(k) /\ m.built = pochi
          /\ at[t].step = "generate" => m.fns = <<>>
          /\ at[t].step = "decide" =>
                IF Interp(m, k) THEN Table(m, k)
                ELSE raced \/ files[m.name] = <<Text("functions", m)>>
          /\ at[t].step = "gcc" =>
                /\ ~Interp(m, k)
                /\ \/ raced
                   \/ files[m.name] = <<Text("functions", m), Text("shims", m)>>
          /\ at[t].step = "load" =>
                ~Interp(m, k) /\ (raced \/ objects[m.name] # <<>>)

\* What a module that was compiled has of its back end.
Ready(t, k) ==
    LET m == mod[t][k]
    IN  at[t].kind # k /\ ~m.user /\ m.funcs # {} =>
          /\ m.funcs = Names(k)
          /\ IF Interp(m, k) THEN Table(m, k) ELSE raced \/ m.lib # <<>>

\* A tensor that needs no compilation has the module of its assignment.
TensorOf(t) ==
    LET m == mod[t]["tensor"]
    IN  ~needs[t] /\ ~m.user
           /\ ~(at[t].kind = "tensor" /\ at[t].step = "draw") =>
          m.funcs = Names("tensor") /\ m.of = Of(t, "tensor", version[t])

SourceIsUser(t) ==
    at[t].source => mod[t]["tensor"].user /\ at[t].step # "draw"

ThreadInvariant(t) ==
    /\ InProgress(t) /\ TensorOf(t) /\ SourceIsUser(t)
    /\ \A k \in Kinds : Ready(t, k)

CallInvariant == LibraryInvariant /\ \A t \in Threads : ThreadInvariant(t)

\* A module is interpreted if the back end is, and it is no helper.
LEMMA UsesPochi ==
    ASSUME TypeOK, NEW k \in Kinds, NEW m \in Modules, m.funcs = Names(k)
    PROVE  UsePochi(m) <=> pochi /\ k # "helper"
<1>1. CASE k = "helper"
  BY <1>1 DEF UsePochi, ShouldUsePochi, Names
<1>2. CASE k = "tensor"
  BY <1>2 DEF UsePochi, ShouldUsePochi, Names
<1>3. CASE k = "kernel"
  BY <1>3 DEF UsePochi, ShouldUsePochi, Names
<1>4. QED
  BY <1>1, <1>2, <1>3 DEF Kinds

\* Functions and shims make a C file that compiles.
LEMMA FileCompiles ==
    ASSUME NEW m \in Modules
    PROVE  Compiles(<<Text("functions", m), Text("shims", m)>>)
<1> DEFINE texts == <<Text("functions", m), Text("shims", m)>>
<1>1. Text("functions", m).what = "functions" /\ Text("shims", m).what = "shims"
  BY DEF Text
<1>2. {i \in DOMAIN texts : texts[i].what = "functions"} = {1}
  BY <1>1
<1>3. {i \in DOMAIN texts : texts[i].what = "shims"} = {2}
  BY <1>1
<1> HIDE DEF texts
<1>4. Cardinality({i \in DOMAIN texts : texts[i].what = "functions"}) = 1
  BY <1>2, FS_Singleton
<1>5. Cardinality({i \in DOMAIN texts : texts[i].what = "shims"}) = 1
  BY <1>3, FS_Singleton
<1>6. Compiles(texts)
  BY <1>4, <1>5 DEF Compiles
<1>7. QED
  BY <1>6 DEF texts

\* The steps of one thread leave the modules of the others alone, and their
\* files too.
Apart(t, u) ==
    /\ \A k \in Kinds : mod'[u][k] = mod[u][k]
    /\ UNCHANGED pochi
    /\ raced => raced'
    /\ at'[u] = at[u] /\ needs'[u] = needs[u] /\ version'[u] = version[u]
    /\ raced \/ \A k \in Kinds :
          /\ files'[mod[u][k].name] = files[mod[u][k].name]
          /\ objects'[mod[u][k].name] = objects[mod[u][k].name]

LEMMA ApartKeeps ==
    ASSUME NEW t \in Threads, NEW u \in Threads, ThreadInvariant(u), Apart(t, u)
    PROVE  ThreadInvariant(u)'
<1>1. "tensor" \in Kinds
  BY DEF Kinds
<1>2. InProgress(u)'
  BY DEF ThreadInvariant, InProgress, Apart, Interp, Table, Text
<1>3. TensorOf(u)' /\ SourceIsUser(u)'
  BY <1>1 DEF ThreadInvariant, TensorOf, SourceIsUser, Apart
<1>4. \A k \in Kinds : Ready(u, k)'
  BY DEF ThreadInvariant, Ready, Apart, Interp, Table
<1>5. QED
  BY <1>2, <1>3, <1>4 DEF ThreadInvariant

\* The actions of one thread.
ThreadStep(t) ==
    \/ CompileTensor(t) \/ CompileKernel(t) \/ CompileHelpers(t)
    \/ CompileSource(t) \/ Construct(t) \/ Reassign(t)
    \/ Generate(t) \/ DecidePochi(t) \/ DecideC(t)
    \/ Gcc(t) \/ GccFails(t) \/ Load(t)

LEMMA StepsApart ==
    ASSUME LibraryInvariant, NEW t \in Threads, ThreadStep(t),
           NEW u \in Threads, u # t
    PROVE  Apart(t, u)
<1>1. TypeOK
  BY DEF LibraryInvariant
<1>2. pochi' = pochi /\ (raced => raced')
  <2>1. CASE Construct(t)
    BY <2>1 DEF Construct
  <2>2. CASE ~Construct(t)
    BY <2>2 DEF ThreadStep, CompileTensor, CompileKernel, CompileHelpers,
       Begin, CompileSource, names, Reassign, Generate, DecidePochi, DecideC,
       Gcc, GccFails, Load
  <2>3. QED
    BY <2>1, <2>2
<1>3. at'[u] = at[u] /\ needs'[u] = needs[u] /\ version'[u] = version[u]
  BY <1>1 DEF ThreadStep, CompileTensor, CompileKernel, CompileHelpers, Begin,
     CompileSource, Construct, Reassign, Generate, DecidePochi, DecideC, Gcc,
     GccFails, Load, Step, Returned, TypeOK
<1>4. \A k \in Kinds : mod'[u][k] = mod[u][k]
  <2>1. CASE CompileTensor(t) \/ CompileKernel(t) \/ CompileHelpers(t)
    BY <2>1 DEF CompileTensor, CompileKernel, CompileHelpers, Begin
  <2>7. CASE Construct(t)
    BY <1>1, <2>7, ConstructEffect DEF Becomes
  <2>2. CASE CompileSource(t)
    BY <1>1, <2>2 DEF CompileSource, TypeOK
  <2>3. CASE Generate(t)
    BY <1>1, <2>3 DEF Generate, TypeOK
  <2>4. CASE Load(t)
    BY <1>1, <2>4 DEF Load, TypeOK
  <2>5. CASE \/ Reassign(t) \/ DecidePochi(t) \/ DecideC(t)
             \/ Gcc(t) \/ GccFails(t)
    BY <2>5 DEF Reassign, DecidePochi, DecideC, Gcc, GccFails
  <2>6. QED
    BY <2>1, <2>2, <2>3, <2>4, <2>5, <2>7 DEF ThreadStep
<1>5. ASSUME NEW k \in Kinds, ~raced
      PROVE  /\ files'[mod[u][k].name] = files[mod[u][k].name]
             /\ objects'[mod[u][k].name] = objects[mod[u][k].name]
  <2>1. mod[u][k].name \in 0 .. MaxModules
    BY <1>1 DEF TypeOK, Modules
  <2>2. CASE Generate(t) \/ DecideC(t) \/ Gcc(t)
    <3> DEFINE l == at[t].kind
               n == mod[t][l].name
    <3>1. l \in Kinds /\ Current(t) = mod[t][l] /\ mod[t][l] \in Modules
      BY <1>1, <2>2, Compiling DEF Generate, DecideC, Gcc, Step, None
    <3> HIDE DEF l
    <3>2. n \in 0 .. MaxModules
      BY <3>1 DEF Modules
    <3>3. mod[u][k].name # n \/ n = 0
      BY <1>5, <3>1 DEF LibraryInvariant, Separate, NamesDiffer
    <3>4. files[0] = <<>> /\ objects[0] = <<>>
      BY <1>5, ModuleAssumption DEF LibraryInvariant, Separate, NamesFresh
    <3>5. ~UsePochi(mod[t][l]) => n # 0
      BY <1>5, <3>1 DEF LibraryInvariant, Separate, NamesDrawn, UsePochi
    <3>6. CASE Generate(t) \/ DecideC(t)
      <4>1. /\ objects' = objects
            /\ \/ files' = files
               \/ /\ n # 0
                  /\ \A i \in 0 .. MaxModules : i # n => files'[i] = files[i]
        BY <1>1, <3>1, <3>2, <3>5, <3>6 DEF Generate, DecideC, TypeOK
      <4>2. QED
        BY <2>1, <3>3, <4>1
    <3>7. CASE Gcc(t)
      <4>1. files' = files /\ objects' = [objects EXCEPT ![n] = files[n]]
        BY <3>1, <3>7 DEF Gcc
      <4>2. CASE mod[u][k].name # n
        BY <1>1, <2>1, <4>1, <4>2 DEF TypeOK
      <4>3. CASE mod[u][k].name = 0 /\ n = 0
        BY <1>1, <2>1, <3>4, <4>1, <4>3 DEF TypeOK
      <4>4. QED
        BY <3>3, <4>2, <4>3
    <3>8. QED
      BY <2>2, <3>6, <3>7
  <2>3. CASE ~Generate(t) /\ ~DecideC(t) /\ ~Gcc(t)
    BY <2>3 DEF ThreadStep, CompileTensor, CompileKernel, CompileHelpers, Begin,
       CompileSource, Construct, Reassign, DecidePochi, GccFails, Load
  <2>4. QED
    BY <2>2, <2>3
<1>6. QED
  BY <1>2, <1>3, <1>4, <1>5 DEF Apart

\* A compilation begins: a tensor's old module is no longer called.
LEMMA BeginCalls ==
    ASSUME CallInvariant, NEW t \in Threads,
           CompileTensor(t) \/ CompileKernel(t) \/ CompileHelpers(t)
    PROVE  ThreadInvariant(t)'
<1>1. TypeOK /\ ThreadInvariant(t) /\ at[t] = Idle
  BY DEF CallInvariant, LibraryInvariant, CompileTensor, CompileKernel,
     CompileHelpers, IsIdle
<1>2. PICK k \in Kinds : Begin(t, k) /\ (k # "tensor" => needs' = needs)
  BY DEF CompileTensor, CompileKernel, CompileHelpers, Kinds
<1>9. /\ at'[t] = [kind |-> k, step |-> "draw", source |-> FALSE,
                    seen |-> gen]
      /\ UNCHANGED <<pochi, raced, files, objects, mod, version>>
  BY <1>1, <1>2, BeginEffect
<1>3. at'[t].kind = k /\ at'[t].step = "draw" /\ at'[t].source = FALSE
  BY <1>9
<1>4. at[t].step # "draw"
  BY <1>1 DEF Idle, None
<1>5. InProgress(t)' /\ SourceIsUser(t)'
  BY <1>3 DEF InProgress, SourceIsUser
<1>6. TensorOf(t)'
  BY <1>1, <1>2, <1>3, <1>4, <1>9 DEF ThreadInvariant, TensorOf
<1>7. ASSUME NEW l \in Kinds PROVE Ready(t, l)'
  <2>1. CASE l = k
    BY <1>3, <2>1 DEF Ready
  <2>2. CASE l # k
    <3>1. at[t].kind # l
      BY <1>1 DEF Idle, None, Kinds
    <3>2. QED
      BY <1>1, <1>3, <1>9, <2>2, <3>1 DEF ThreadInvariant, Ready, Interp, Table
  <2>3. QED
    BY <2>1, <2>2
<1>8. QED
  BY <1>5, <1>6, <1>7 DEF ThreadInvariant

\* A module that was constructed has nothing of its back end yet, and is for
\* the assignment the tensor has.
LEMMA ConstructCalls ==
    ASSUME CallInvariant, NEW t \in Threads, Construct(t)
    PROVE  ThreadInvariant(t)'
<1>1. TypeOK /\ ThreadInvariant(t)
  BY DEF CallInvariant, LibraryInvariant
<1>2. PICK k \in Kinds, m \in Modules :
         /\ k = at[t].kind /\ at[t].step = "draw"
         /\ Becomes(t, k, m) /\ Fresh(m, t, k)
         /\ at'[t].kind = k /\ at'[t].step = "generate"
         /\ at'[t].source = at[t].source
         /\ raced' = (raced \/ gen # at[t].seen)
         /\ UNCHANGED <<pochi, files, objects, version, needs>>
  BY <1>1, ConstructEffect
<1>3. mod'[t][k] = m /\ \A l \in Kinds \ {k} : mod'[t][l] = mod[t][l]
  BY <1>2 DEF Becomes
<1>4. /\ m.funcs = Names(k) /\ m.of = Lowered(t, k)
      /\ m.fns = <<>> /\ m.user = FALSE /\ m.built = pochi
  BY <1>2 DEF Fresh
<1>5. InProgress(t)'
  BY <1>2, <1>3, <1>4 DEF InProgress
<1>6. SourceIsUser(t)'
  BY <1>1, <1>2, <1>3 DEF ThreadInvariant, SourceIsUser
<1>7. TensorOf(t)'
  <2>1. CASE k = "tensor"
    BY <1>2, <1>3, <1>4, <2>1 DEF TensorOf, Lowered
  <2>2. CASE k # "tensor"
    BY <1>1, <1>2, <1>3, <2>2 DEF ThreadInvariant, TensorOf, Kinds
  <2>3. QED
    BY <2>1, <2>2
<1>8. ASSUME NEW l \in Kinds PROVE Ready(t, l)'
  <2>1. CASE l = k
    BY <1>2, <2>1 DEF Ready
  <2>2. CASE l # k
    BY <1>1, <1>2, <1>3, <2>2 DEF ThreadInvariant, Ready, Interp, Table
  <2>3. QED
    BY <2>1, <2>2
<1>9. QED
  BY <1>5, <1>6, <1>7, <1>8 DEF ThreadInvariant

\* Calls run by a tensor whose sources the user gave are not promised
\* anything.
LEMMA SourceCalls ==
    ASSUME CallInvariant, NEW t \in Threads, CompileSource(t)
    PROVE  ThreadInvariant(t)'
<1>1. TypeOK /\ ThreadInvariant(t) /\ at[t] = Idle
  BY DEF CallInvariant, LibraryInvariant, CompileSource, IsIdle
<1>2. PICK m \in Modules : m.user = TRUE /\ Becomes(t, "tensor", m)
  BY <1>1, SourceEffect
<1>3. "tensor" \in Kinds
  BY DEF Kinds
<1>4. /\ mod'[t]["tensor"] = m
      /\ \A l \in Kinds \ {"tensor"} : mod'[t][l] = mod[t][l]
  BY <1>2, <1>3 DEF Becomes
<1>5. /\ at'[t].kind = "tensor" /\ at'[t].step = "generate"
      /\ UNCHANGED <<pochi, raced>>
  BY <1>1 DEF CompileSource, names, TypeOK
<1>6. InProgress(t)' /\ SourceIsUser(t)' /\ TensorOf(t)'
  BY <1>2, <1>4, <1>5 DEF InProgress, SourceIsUser, TensorOf
<1>7. ASSUME NEW l \in Kinds PROVE Ready(t, l)'
  <2>1. CASE l = "tensor"
    BY <1>5, <2>1 DEF Ready
  <2>2. CASE l # "tensor"
    <3>1. at[t].kind # l
      BY <1>1 DEF Idle, None, Kinds
    <3>2. QED
      BY <1>1, <1>4, <1>5, <2>2, <3>1
         DEF ThreadInvariant, Ready, Interp, Table
  <2>3. QED
    BY <2>1, <2>2
<1>8. QED
  BY <1>6, <1>7 DEF ThreadInvariant

\* A step in the middle of a compilation disturbs no other module of the
\* thread.
LEMMA MiddleCalls ==
    ASSUME CallInvariant, NEW t \in Threads, NEW k \in Kinds, NEW m \in Modules,
           at[t].kind = k, at'[t].kind = k, at'[t].source = at[t].source,
           at[t].step # "draw", at'[t].step # "draw", raced => raced',
           Becomes(t, k, m),
           m.user = mod[t][k].user, m.funcs = mod[t][k].funcs,
           m.of = mod[t][k].of,
           UNCHANGED <<version, needs>>, InProgress(t)'
    PROVE  ThreadInvariant(t)'
<1>1. ThreadInvariant(t)
  BY DEF CallInvariant
<1>2. mod'[t][k] = m /\ \A l \in Kinds \ {k} : mod'[t][l] = mod[t][l]
  BY DEF Becomes
<1>3. "tensor" \in Kinds
  BY DEF Kinds
<1>4. TensorOf(t)'
  BY <1>1, <1>2, <1>3 DEF ThreadInvariant, TensorOf
<1>5. SourceIsUser(t)'
  BY <1>1, <1>2, <1>3 DEF ThreadInvariant, SourceIsUser
<1>6. \A l \in Kinds : Ready(t, l)'
  BY <1>1, <1>2 DEF ThreadInvariant, Ready, Interp, Table
<1>7. QED
  BY <1>4, <1>5, <1>6 DEF ThreadInvariant

\* compileToSource() interprets the functions or writes them to the file.
LEMMA GenerateCalls ==
    ASSUME CallInvariant, NEW t \in Threads, Generate(t)
    PROVE  ThreadInvariant(t)'
<1>1. TypeOK /\ LibraryInvariant /\ InProgress(t)
  BY DEF CallInvariant, LibraryInvariant, ThreadInvariant
<1> DEFINE k == at[t].kind
           old == mod[t][k]
<1>2. /\ k \in Kinds /\ old \in Modules /\ at[t].step = "generate"
      /\ \/ ~old.user /\ UsePochi(old)
            /\ Interpreted(old) \in Modules
            /\ Becomes(t, k, Interpreted(old))
            /\ files' = files
         \/ ~old.user /\ ~UsePochi(old) /\ mod' = mod
            /\ files' = [files EXCEPT ![old.name] = <<Text("functions", old)>>]
         \/ old.user /\ mod' = mod /\ files' = files
      /\ at' = [at EXCEPT ![t].step = "decide"]
      /\ UNCHANGED <<pochi, gen, made, raced, objects, version, needs>>
  BY <1>1, GenerateEffect
<1>3. at[t] \in Compilations
  BY <1>1, <1>2, Compiling DEF None
<1>4. /\ at'[t].kind = at[t].kind /\ at'[t].source = at[t].source
      /\ at'[t].step = "decide"
  BY <1>1, <1>2, <1>3 DEF TypeOK, Compilations
<1>5. ~old.user => /\ old.funcs = Names(k) /\ old.built = pochi
                   /\ old.fns = <<>>
  BY <1>1, <1>2 DEF InProgress
<1>6. ~old.user => (UsePochi(old) <=> Interp(old, k))
  BY <1>1, <1>2, <1>5, UsesPochi DEF Interp
<1>7. PICK m \in Modules : Becomes(t, k, m) /\ m.user = old.user
                           /\ m.funcs = old.funcs /\ m.of = old.of
                           /\ m.built = old.built /\ m.name = old.name
                           /\ \/ old.user
                              \/ UsePochi(old) /\ m.fns = Interpreted(old).fns
                              \/ m = old /\ ~UsePochi(old)
                                 /\ files' = [files EXCEPT
                                       ![old.name] = <<Text("functions", old)>>]
  <2>1. CASE Becomes(t, k, Interpreted(old)) /\ Interpreted(old) \in Modules
             /\ UsePochi(old)
    BY <1>2, <2>1, InterpretedType
  <2>2. CASE mod' = mod
    <3>1. Becomes(t, k, old)
      BY <2>2 DEF Becomes
    <3>2. CASE old.user
      BY <1>2, <3>1, <3>2
    <3>3. CASE UsePochi(old) /\ Interpreted(old) \in Modules
               /\ Becomes(t, k, Interpreted(old))
      BY <2>1, <3>3
    <3>4. CASE ~UsePochi(old) /\ files' = [files EXCEPT
                    ![old.name] = <<Text("functions", old)>>]
      BY <1>2, <3>1, <3>4
    <3>5. QED
      BY <1>2, <3>2, <3>3, <3>4
  <2>3. QED
    BY <1>2, <2>1, <2>2
<1> HIDE DEF k
<1>8. mod'[t][k] = m /\ at'[t].kind = k /\ k = at[t].kind /\ pochi' = pochi
  BY <1>2, <1>4, <1>7 DEF Becomes, k
<1>9. Interp(m, k) <=> Interp(old, k)
  BY <1>7 DEF Interp
<1>10. ASSUME ~m.user
       PROVE  IF Interp(m, k) THEN Table(m, k)
              ELSE files'[m.name] = <<Text("functions", m)>>
  <2>1. CASE Interp(m, k)
    <3>1. m.fns = Interpreted(old).fns
      BY <1>6, <1>7, <1>9, <1>10, <2>1
    <3>2. Interpreted(old).fns = [name \in DOMAIN old.fns \cup old.funcs |->
              IF name \in DOMAIN old.fns THEN old.fns[name] ELSE old.of]
      BY <1>2, InterpretedType
    <3>3. old.fns = <<>> /\ DOMAIN <<>> = {} /\ old.funcs = Names(k)
      BY <1>5, <1>7, <1>10
    <3>4. m.fns = [name \in Names(k) |-> old.of]
      BY <3>1, <3>2, <3>3
    <3>5. QED
      BY <1>7, <2>1, <3>4 DEF Table
  <2>2. CASE ~Interp(m, k)
    <3>1. m = old /\ files' = [files EXCEPT
                         ![old.name] = <<Text("functions", old)>>]
      BY <1>6, <1>7, <1>9, <1>10, <2>2
    <3>2. old.name \in 0 .. MaxModules
      BY <1>2 DEF Modules
    <3>3. QED
      BY <1>1, <2>2, <3>1, <3>2 DEF TypeOK
  <2>3. QED
    BY <2>1, <2>2
<1>11. ASSUME ~m.user PROVE m.funcs = Names(k) /\ m.built = pochi
  BY <1>5, <1>7, <1>11
<1>12. InProgress(t)'
  BY <1>4, <1>8, <1>10, <1>11 DEF InProgress, Interp, Table, Text
<1>13. k \in Kinds /\ at[t].kind = k /\ at'[t].source = at[t].source
       /\ UNCHANGED <<version, needs, raced>>
       /\ at[t].step # "draw" /\ at'[t].step # "draw"
  BY <1>2, <1>4 DEF k
<1>14. QED
  BY <1>7, <1>8, <1>12, <1>13, MiddleCalls

\* Appending to a sequence of one element.
LEMMA AppendPair ==
    ASSUME NEW S, NEW a \in S, NEW b \in S
    PROVE  Append(<<a>>, b) = <<a, b>>
<1> DEFINE one == <<a>>
           two == <<a, b>>
           s == Append(one, b)
<1>1. one \in Seq(S) /\ Len(one) = 1 /\ one[1] = a
  OBVIOUS
<1>2. two \in Seq(S) /\ Len(two) = 2 /\ two[1] = a /\ two[2] = b
  OBVIOUS
<1> HIDE DEF one, two
<1>3. /\ s \in Seq(S) /\ Len(s) = 2
      /\ s[1] = one[1] /\ s[2] = b
  <2>1. s \in Seq(S) /\ Len(s) = Len(one) + 1
    BY <1>1, AppendProperties
  <2>2. 1 \in 1 .. Len(one) /\ Len(one) + 1 = 2
    BY <1>1
  <2>3. \A i \in 1 .. Len(one) : s[i] = one[i]
    BY <1>1, AppendProperties
  <2>4. s[Len(one) + 1] = b
    BY <1>1, AppendProperties
  <2>5. QED
    BY <2>1, <2>2, <2>3, <2>4
<1> HIDE DEF s
<1>4. \A i \in 1 .. Len(s) : s[i] = two[i]
  BY <1>1, <1>2, <1>3
<1>5. s = two
  BY <1>2, <1>3, <1>4, SeqEqual
<1>6. QED
  BY <1>5 DEF s, one, two

\* A module that is not interpreted gets a C file that compiles, and a
\* shared object.
LEMMA FileCalls ==
    ASSUME CallInvariant, NEW t \in Threads, DecideC(t) \/ Gcc(t)
    PROVE  ThreadInvariant(t)'
<1>1. TypeOK /\ LibraryInvariant /\ InProgress(t)
  BY DEF CallInvariant, LibraryInvariant, ThreadInvariant
<1>2. PICK k \in Kinds : k = at[t].kind
  BY <1>1, Compiling DEF DecideC, Gcc, Step, None
<1>3. PICK m \in Modules : m = mod[t][k] /\ m = Current(t)
  BY <1>1, <1>2, Compiling DEF DecideC, Gcc, Step, None
<1>4. at[t] \in Compilations /\ m.name \in 0 .. MaxModules
  BY <1>1, <1>3, Compiling DEF DecideC, Gcc, Step, None, Modules
<1>5. /\ mod' = mod /\ UNCHANGED <<pochi, version, needs, raced>>
      /\ at'[t].kind = k /\ at'[t].source = at[t].source
      /\ at[t].step # "draw" /\ at'[t].step # "draw"
  <2>1. /\ mod' = mod /\ UNCHANGED <<pochi, version, needs, raced>>
        /\ at[t].step \in {"decide", "gcc"}
        /\ \E to \in {"gcc", "load"} : at' = [at EXCEPT ![t].step = to]
    BY DEF DecideC, Gcc, Step, names
  <2>2. /\ at'[t].kind = at[t].kind /\ at'[t].source = at[t].source
        /\ at'[t].step \in {"gcc", "load"}
    BY <1>1, <1>4, <2>1 DEF TypeOK, Compilations
  <2>3. QED
    BY <1>2, <2>1, <2>2
<1>6. ~m.user => m.funcs = Names(k) /\ m.built = pochi
  BY <1>1, <1>2, <1>3, <1>5 DEF InProgress
<1>7. InProgress(t)'
  <2>1. CASE DecideC(t)
    <3>1. /\ at[t].step = "decide" /\ at'[t].step = "gcc" /\ ~UsePochi(m)
          /\ files'[m.name] = Append(files[m.name], Text("shims", m))
      BY <1>1, <1>3, <1>4, <2>1 DEF DecideC, Step, TypeOK, Compilations
    <3>2. ASSUME ~m.user
          PROVE  /\ ~Interp(m, k)
                 /\ \/ raced
                    \/ files'[m.name] =
                          <<Text("functions", m), Text("shims", m)>>
      <4>1. ~Interp(m, k)
        BY <1>1, <1>6, <3>1, <3>2, UsesPochi DEF Interp
      <4>2. raced \/ files[m.name] = <<Text("functions", m)>>
        BY <1>1, <1>2, <1>3, <3>1, <3>2, <4>1 DEF InProgress
      <4>3. Append(<<Text("functions", m)>>, Text("shims", m))
              = <<Text("functions", m), Text("shims", m)>>
        BY TextType, AppendPair
      <4>4. QED
        BY <3>1, <4>1, <4>2, <4>3
    <3>3. /\ mod'[t][k] = m /\ at'[t].kind = k
          /\ pochi' = pochi /\ raced' = raced
      BY <1>3, <1>5
    <3>4. QED
      BY <1>6, <3>1, <3>2, <3>3 DEF InProgress, Interp, Text
  <2>2. CASE Gcc(t)
    <3>1. /\ at[t].step = "gcc" /\ at'[t].step = "load"
          /\ objects'[m.name] = files[m.name]
      BY <1>1, <1>3, <1>4, <2>2 DEF Gcc, Step, TypeOK, Compilations
    <3>2. ~m.user => ~Interp(m, k) /\ (raced \/ objects'[m.name] # <<>>)
      <4> DEFINE F == Text("functions", m)
                 S == Text("shims", m)
      <4>1. ~m.user => ~Interp(m, k) /\ (raced \/ files[m.name] = <<F, S>>)
        BY <1>1, <1>2, <1>3, <3>1 DEF InProgress
      <4> HIDE DEF F, S
      <4>2. <<F, S>> # <<>>
        OBVIOUS
      <4>3. QED
        BY <3>1, <4>1, <4>2
    <3>3. /\ mod'[t][k] = m /\ at'[t].kind = k
          /\ pochi' = pochi /\ raced' = raced
      BY <1>3, <1>5
    <3>4. QED
      BY <1>6, <3>1, <3>2, <3>3 DEF InProgress, Interp
  <2>3. QED
    BY <2>1, <2>2
<1>8. Becomes(t, k, m)
  BY <1>3, <1>5 DEF Becomes
<1>9. QED
  BY <1>2, <1>3, <1>5, <1>7, <1>8, MiddleCalls

\* Module::compile() ends with the functions interpreted or a library
\* loaded, and does not fail unless a source was given.
LEMMA EndCalls ==
    ASSUME CallInvariant, NEW t \in Threads,
           DecidePochi(t) \/ Load(t) \/ GccFails(t)
    PROVE  ThreadInvariant(t)'
<1>1. TypeOK /\ LibraryInvariant /\ ThreadInvariant(t)
  BY DEF CallInvariant, LibraryInvariant
<1>2. /\ at[t].step \notin {None, "draw"} /\ at'[t] = Idle
      /\ UNCHANGED <<pochi, version, raced>>
      /\ needs'[t] = needs[t] \/ (at[t].source /\ ~GccFails(t))
  BY <1>1 DEF DecidePochi, Load, GccFails, Returned, names, TypeOK, None
<1>3. PICK k \in Kinds : k = at[t].kind
  BY <1>1, <1>2, Compiling
<1>4. PICK old \in Modules : old = mod[t][k] /\ old = Current(t)
  BY <1>1, <1>2, <1>3, Compiling
<1>5. ~old.user => old.funcs = Names(k) /\ old.built = pochi
  BY <1>1, <1>2, <1>3, <1>4 DEF ThreadInvariant, InProgress
<1>6. PICK m \in Modules :
         /\ Becomes(t, k, m) /\ m.user = old.user /\ m.funcs = old.funcs
         /\ m.of = old.of /\ m.built = old.built /\ m.fns = old.fns
         /\ Load(t) => m.lib = objects[old.name]
  <2>1. CASE Load(t)
    BY <1>1, <1>3, <1>4, <2>1, LoadEffect
  <2>2. CASE ~Load(t)
    <3>1. mod' = mod
      BY <2>2 DEF DecidePochi, GccFails
    <3>2. Becomes(t, k, old)
      BY <1>4, <3>1 DEF Becomes
    <3>3. QED
      BY <2>2, <3>2
  <2>3. QED
    BY <2>1, <2>2
<1>7. mod'[t][k] = m /\ \A l \in Kinds \ {k} : mod'[t][l] = mod[t][l]
  BY <1>6 DEF Becomes
<1>8. ASSUME ~m.user
      PROVE  IF Interp(m, k) THEN Table(m, k) ELSE raced \/ m.lib # <<>>
  <2>1. InProgress(t) /\ ~old.user
    BY <1>1, <1>6, <1>8 DEF ThreadInvariant
  <2>2. CASE DecidePochi(t)
    <3>1. at[t].step = "decide" /\ UsePochi(old)
      BY <1>4, <2>2 DEF DecidePochi
    <3>2. Interp(old, k)
      BY <1>1, <1>5, <2>1, <3>1, UsesPochi DEF Interp
    <3>3. Table(old, k)
      BY <1>3, <1>4, <2>1, <3>1, <3>2 DEF InProgress
    <3>4. QED
      BY <1>6, <3>2, <3>3 DEF Interp, Table
  <2>3. CASE Load(t)
    <3>1. ~Interp(old, k) /\ (raced \/ objects[old.name] # <<>>)
      BY <1>3, <1>4, <2>1, <2>3 DEF InProgress, Load
    <3>2. QED
      BY <1>6, <2>3, <3>1 DEF Interp
  <2>4. CASE GccFails(t)
    <3>1. /\ ~Interp(old, k)
          /\ \/ raced
             \/ files[old.name] =
                   <<Text("functions", old), Text("shims", old)>>
      BY <1>3, <1>4, <2>1, <2>4 DEF InProgress, GccFails
    <3>2. raced
      BY <1>4, <2>4, <3>1, FileCompiles DEF GccFails
    <3>3. QED
      BY <1>6, <3>1, <3>2 DEF Interp
  <2>5. QED
    BY <2>2, <2>3, <2>4
<1>9. at'[t].kind \notin Kinds /\ at'[t].source = FALSE
  BY <1>2 DEF Idle, None, Kinds
<1>10. InProgress(t)' /\ SourceIsUser(t)'
  BY <1>9 DEF InProgress, SourceIsUser
<1>11. "tensor" \in Kinds
  BY DEF Kinds
<1>12. TensorOf(t)'
  <2>1. /\ mod'[t]["tensor"].user = mod[t]["tensor"].user
        /\ mod'[t]["tensor"].funcs = mod[t]["tensor"].funcs
        /\ mod'[t]["tensor"].of = mod[t]["tensor"].of
    BY <1>4, <1>6, <1>7, <1>11
  <2>2. CASE needs'[t] = needs[t]
    BY <1>1, <1>2, <2>1, <2>2 DEF ThreadInvariant, TensorOf
  <2>3. CASE at[t].source
    BY <1>1, <2>1, <2>3 DEF ThreadInvariant, SourceIsUser, TensorOf
  <2>4. QED
    BY <1>2, <2>2, <2>3
<1>13. ASSUME NEW l \in Kinds PROVE Ready(t, l)'
  <2>1. CASE l = k
    BY <1>2, <1>5, <1>6, <1>7, <1>8, <2>1 DEF Ready, Interp, Table
  <2>2. CASE l # k
    BY <1>1, <1>2, <1>3, <1>7, <2>2 DEF ThreadInvariant, Ready, Interp, Table
  <2>3. QED
    BY <2>1, <2>2
<1>14. QED
  BY <1>10, <1>12, <1>13 DEF ThreadInvariant
\* setAssignment() leaves a tensor that needs a compilation.
LEMMA ReassignCalls ==
    ASSUME CallInvariant, NEW t \in Threads, Reassign(t)
    PROVE  ThreadInvariant(t)'
<1>1. TypeOK /\ ThreadInvariant(t)
  BY DEF CallInvariant, LibraryInvariant
<1>2. /\ needs'[t] = TRUE
      /\ UNCHANGED <<pochi, raced, files, objects, mod, at>>
  BY <1>1 DEF Reassign, names, TypeOK
<1>3. TensorOf(t)'
  BY <1>2 DEF TensorOf
<1>4. InProgress(t)' /\ SourceIsUser(t)'
  BY <1>1, <1>2 DEF ThreadInvariant, InProgress, SourceIsUser, Interp, Table,
     Text
<1>5. \A k \in Kinds : Ready(t, k)'
  BY <1>1, <1>2 DEF ThreadInvariant, Ready, Interp, Table
<1>6. QED
  BY <1>3, <1>4, <1>5 DEF ThreadInvariant

\* A switch of the back end while no thread compiles leaves every module that
\* was compiled as it is: it says itself which back end it was built for.
LEMMA SwitchCalls ==
    ASSUME "switchCompiling" \notin Usage, CallInvariant, SetPochiState,
           NEW t \in Threads
    PROVE  ThreadInvariant(t)'
<1>1. ThreadInvariant(t)
  BY DEF CallInvariant
<1>2. /\ at[t] = Idle
      /\ UNCHANGED <<raced, files, objects, mod, version, needs, at>>
  BY DEF SetPochiState, names, IsIdle
<1>3. at'[t].kind \notin Kinds
  BY <1>2 DEF Idle, None, Kinds
<1>4. InProgress(t)'
  BY <1>3 DEF InProgress
<1>5. TensorOf(t)' /\ SourceIsUser(t)'
  BY <1>1, <1>2 DEF ThreadInvariant, TensorOf, SourceIsUser
<1>6. \A k \in Kinds : Ready(t, k)'
  BY <1>1, <1>2 DEF ThreadInvariant, Ready, Interp, Table
<1>7. QED
  BY <1>4, <1>5, <1>6 DEF ThreadInvariant

LEMMA NextCallInvariant ==
    ASSUME "switchCompiling" \notin Usage, CallInvariant, [Next]_vars
    PROVE  CallInvariant'
<1>1. LibraryInvariant /\ LibraryInvariant'
  BY NextLibraryInvariant DEF CallInvariant
<1>2. ASSUME NEW t \in Threads, ThreadStep(t), NEW u \in Threads
      PROVE  ThreadInvariant(u)'
  <2>1. CASE u = t
    <3>1. CASE CompileTensor(t) \/ CompileKernel(t) \/ CompileHelpers(t)
      BY <2>1, <3>1, BeginCalls
    <3>8. CASE Construct(t)
      BY <2>1, <3>8, ConstructCalls
    <3>2. CASE CompileSource(t)
      BY <2>1, <3>2, SourceCalls
    <3>3. CASE Reassign(t)
      BY <2>1, <3>3, ReassignCalls
    <3>4. CASE Generate(t)
      BY <2>1, <3>4, GenerateCalls
    <3>5. CASE DecideC(t) \/ Gcc(t)
      BY <2>1, <3>5, FileCalls
    <3>6. CASE DecidePochi(t) \/ Load(t) \/ GccFails(t)
      BY <2>1, <3>6, EndCalls
    <3>7. QED
      BY <1>2, <3>1, <3>2, <3>3, <3>4, <3>5, <3>6, <3>8 DEF ThreadStep
  <2>2. CASE u # t
    <3>1. Apart(t, u)
      BY <1>1, <1>2, <2>2, StepsApart
    <3>2. ThreadInvariant(u)
      BY DEF CallInvariant
    <3>3. QED
      BY <1>2, <3>1, <3>2, ApartKeeps
  <2>3. QED
    BY <2>1, <2>2
<1>3. ASSUME SetPochiState, NEW u \in Threads PROVE ThreadInvariant(u)'
  BY <1>3, SwitchCalls
<1>4. ASSUME UNCHANGED vars, NEW u \in Threads PROVE ThreadInvariant(u)'
  <2>1. ThreadInvariant(u)
    BY DEF CallInvariant
  <2>2. QED
    BY <1>4, <2>1 DEF vars, names, ThreadInvariant, InProgress, TensorOf,
       SourceIsUser, Ready, Interp, Table, Text
<1>5. CASE SetPochiState
  BY <1>1, <1>3, <1>5 DEF CallInvariant
<1>6. CASE UNCHANGED vars
  BY <1>1, <1>4, <1>6 DEF CallInvariant
<1>7. CASE \E t \in Threads : ThreadStep(t)
  BY <1>1, <1>2, <1>7 DEF CallInvariant
<1>8. QED
  BY <1>5, <1>6, <1>7 DEF Next, ThreadStep

LEMMA InitCallInvariant == Init => CallInvariant
<1> SUFFICES ASSUME Init PROVE CallInvariant
  OBVIOUS
<1>1. LibraryInvariant
  BY InitLibraryInvariant
<1>2. SUFFICES ASSUME NEW t \in Threads PROVE ThreadInvariant(t)
  BY <1>1 DEF CallInvariant
<1>3. /\ at[t] = Idle /\ needs[t] = TRUE
      /\ \A k \in Kinds : mod[t][k] = EmptyModule(0)
  BY DEF Init
<1>4. at[t].kind \notin Kinds /\ at[t].source = FALSE
  BY <1>3 DEF Idle, None, Kinds
<1>5. InProgress(t) /\ SourceIsUser(t) /\ TensorOf(t)
  BY <1>3, <1>4 DEF InProgress, SourceIsUser, TensorOf
<1>6. \A k \in Kinds : mod[t][k].funcs = {}
  BY <1>3 DEF EmptyModule
<1>7. \A k \in Kinds : Ready(t, k)
  BY <1>6 DEF Ready
<1>8. QED
  BY <1>5, <1>7 DEF ThreadInvariant

LEMMA InvariantImpliesCalls ==
    ASSUME "callSwitched" \notin Usage, CallInvariant
    PROVE  CallRunsCurrent
<1> SUFFICES ASSUME NEW t \in Threads, NEW k \in Kinds,
                    MayCall(t, k), ~mod[t][k].user,
                    raced => UsePochi(mod[t][k]),
                    NEW name \in Names(k)
             PROVE  Callee(mod[t][k], name) = Wanted(t, k)
  BY DEF CallRunsCurrent
<1>1. /\ TypeOK /\ LibraryInvariant /\ ThreadInvariant(t)
      /\ k # "helper" => at[t] = Idle
  BY DEF CallInvariant, LibraryInvariant, MayCall, IsIdle, Kinds
<1>2. PICK m \in Modules : m = mod[t][k]
  BY <1>1 DEF TypeOK
<1>3. at[t].kind # k /\ (k = "tensor" => at[t].step # "draw")
  BY <1>1 DEF Idle, None, Kinds, MayCall, Cached
<1>4. k = "tensor" => m.funcs = Names("tensor") /\ m.of = Wanted(t, k)
  BY <1>1, <1>2, <1>3 DEF MayCall, ThreadInvariant, TensorOf, Wanted
<1>5. m.of = Wanted(t, k)
  BY <1>2, <1>4 DEF Wanted
<1>6. m.funcs # {}
  BY <1>2, <1>4 DEF MayCall, Names
<1>7. /\ m.funcs = Names(k)
      /\ IF Interp(m, k) THEN Table(m, k) ELSE raced \/ m.lib # <<>>
  BY <1>1, <1>2, <1>3, <1>6 DEF ThreadInvariant, Ready
<1>12. ~Interp(m, k) => ~raced /\ m.lib # <<>>
  <2>1. UsePochi(m) <=> pochi /\ k # "helper"
    BY <1>1, <1>7, UsesPochi
  <2>2. k # "helper" => m.built = pochi
    BY <1>2 DEF MayCall
  <2>3. raced => UsePochi(m)
    BY <1>2
  <2>4. raced => Interp(m, k)
    BY <2>1, <2>2, <2>3 DEF Interp
  <2>5. QED
    BY <1>7, <2>4
<1>8. ShouldUsePochi(name) <=> Interp(m, k)
  <2>1. CASE k = "helper"
    BY <2>1 DEF Names, ShouldUsePochi, Interp
  <2>2. CASE k # "helper"
    <3>1. m.built = pochi
      BY <1>2, <2>2 DEF MayCall
    <3>2. name \notin {"pack", "iterate"}
      BY <2>2 DEF Names, Kinds
    <3>3. QED
      BY <2>2, <3>1, <3>2 DEF ShouldUsePochi, Interp
  <2>3. QED
    BY <2>1, <2>2
<1>9. CASE Interp(m, k)
  BY <1>2, <1>5, <1>7, <1>8, <1>9 DEF Callee, Table
<1>10. CASE ~Interp(m, k)
  <2>1. m.lib \in Seq(Texts) /\ m.lib # <<>>
    BY <1>10, <1>12 DEF Modules
  <2>2. 1 \in 1 .. Len(m.lib)
    BY <2>1, EmptySeq, LenProperties
  <2>3. m.lib[1].of = m.of
    BY <1>1, <1>2, <1>10, <1>12, <2>2
       DEF LibraryInvariant, Separate, TextsOwn, OwnText
  <2>4. QED
    BY <1>2, <1>5, <1>8, <1>10, <2>1, <2>3 DEF Callee
<1>11. QED
  BY <1>9, <1>10

\* A call runs the function of the assignment its tensor, kernel or helper was
\* last compiled for, for any number of threads that compile and reassign at
\* the same time, as long as the client switches the back end only while no
\* module is compiled and calls a module with the back end it was built for.
\* For interpreted modules that is so whatever the random engine does; for
\* modules compiled to C, until two draws of library names overlap
\* (module.cpp: setJITLibname, compile, callFuncPackedRaw; codegen_pochi.cpp:
\* should_use_pochi_codegen).
THEOREM CallRunsCurrentHolds ==
    ASSUME "switchCompiling" \notin Usage, "callSwitched" \notin Usage
    PROVE  Spec => []CallRunsCurrent
<1>1. CallInvariant /\ [Next]_vars => CallInvariant'
  BY NextCallInvariant
<1>2. CallInvariant => CallRunsCurrent
  BY InvariantImpliesCalls
<1>3. QED
  BY <1>1, <1>2, InitCallInvariant, PTL DEF Spec
=============================================================================
