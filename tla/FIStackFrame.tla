---------------------------- MODULE FIStackFrame ----------------------------
(***************************************************************************)
(* The stack frame of a function that PochiVM's fast interpreter compiles  *)
(* (PochiVM/fastinterp/fastinterp_operand_stack.h), driven by the two      *)
(* passes of the code generator over the expressions of a function body:   *)
(*                                                                         *)
(*   - FastInterpSetupSpillLocation() walks the whole body first and finds *)
(*     out which temporaries will not survive in a register;               *)
(*   - PrepareForFastInterp() walks it again, now with local variables,    *)
(*     and instantiates boilerplates that rely on those answers.           *)
(*                                                                         *)
(* The two walks push and pop the same temporaries but do not see the same *)
(* frame.  Everything the second one emits (which register an operand is   *)
(* in, how many registers a boilerplate carries through, where a spilled   *)
(* value lies) is right only if its frame agrees with the first one's      *)
(* answers.  An expression is chosen while the first walk visits it; the   *)
(* generated code is then run on a model of the registers and the frame.   *)
(***************************************************************************)
EXTENDS Integers, Sequences

CONSTANTS
    Limit,      \* Limit[t]: x_fastinterp_max_{integral,floating_point}_params
    StartOffset,\* (number of parameters + 1) * 8: where the frame's body begins
    Sizes,      \* Sizes[t]: the sizes of variables of type t, in bytes
    MaxParams,  \* bound: parameters of a call
    MaxNodes,   \* bound: expression nodes of the body
    MaxStmts    \* bound: statements of the body

\* Operand classes: a value is integral (or a pointer, or a bool) or floating.
Types == {"i", "f"}

\* FISpillLocation without a location (x_FINoSpill).
NoSpill == -1

ASSUME FrameAssumption ==
    /\ Limit \in [Types -> Nat \ {0}]
    /\ StartOffset \in Nat \ {0} /\ StartOffset % 8 = 0
    /\ Sizes \in [Types -> SUBSET (Nat \ {0})]
    /\ MaxParams \in Nat /\ MaxNodes \in Nat /\ MaxStmts \in Nat

VARIABLES
    fm,     \* FIStackFrameManager: the planner and the two operand stacks
    nodes,  \* the AST's expression nodes, with what the first pass left in them
    stmts,  \* the body: declarations, each with its root node and its size
    phase,  \* "setup", "prepare" or "done"
    at,     \* statements prepared so far
    locals, \* m_localVarStack: the variables in scope, with their offsets
    work,   \* the walk's pending calls, the innermost first
    code    \* the snippets of the calls that returned, the last one first

vars == <<fm, nodes, stmts, phase, at, locals, work, code>>

-----------------------------------------------------------------------------
(* FIStackFramePlanner *)

Larger(a, b) == IF a >= b THEN a ELSE b

UpAlign(value, alignment) ==
    ((value + alignment - 1) \div alignment) * alignment

\* The offset the k-th of several successive GetTemp() calls returns: the free
\* list is used from its end, then the frame grows.
GetTemp(p, k) ==
    IF k <= Len(p.free) THEN p.free[Len(p.free) - k + 1]
                        ELSE p.top + 8 * (k - Len(p.free) - 1)

\* The planner after n GetTemp() calls.
AfterGetTemp(p, n) ==
    LET top == p.top + 8 * Larger(0, n - Len(p.free))
    IN  [p EXCEPT !.free = SubSeq(p.free, 1, Larger(0, Len(p.free) - n)),
                  !.top = top, !.max = Larger(p.max, top)]

FreeTemp(p, offset) == [p EXCEPT !.free = Append(@, offset)]

\* Mutant: the free list outlives the variable's allocation.
GetLocalVar_KeepsFree(p, size, alignment) ==
    LET base == UpAlign(p.base, alignment) + size
        top  == UpAlign(base, 8)
    IN  [p EXCEPT !.old = Append(@, p.base), !.base = base, !.top = top,
                  !.max = Larger(p.max, top)]

GetLocalVar(p, size, alignment) ==
    LET base == UpAlign(p.base, alignment) + size
        top  == UpAlign(base, 8)
    IN  [p EXCEPT !.old = Append(@, p.base), !.base = base, !.top = top,
                  !.free = <<>>, !.max = Larger(p.max, top)]

PlannerPopLocalVar(p) ==
    LET base == p.old[Len(p.old)]
    IN  [p EXCEPT !.old = SubSeq(@, 1, Len(@) - 1), !.base = base,
                  !.top = UpAlign(base, 8), !.free = <<>>]

-----------------------------------------------------------------------------
(* FITempOperandStack: operands 1..first of st[t].stack are spilled.  An   *)
(* operand remembers the node that pushed it, for the invariants.          *)

SpillUpTo(f, t, bound) ==
    LET s == f.st[t]
        n == Larger(0, bound - s.first)
    IN  [AfterGetTemp(f, n) EXCEPT
            !.st[t] = [stack |-> [k \in 1..Len(s.stack) |->
                            IF k > s.first /\ k <= s.first + n
                            THEN [s.stack[k] EXCEPT
                                    !.loc = GetTemp(f, k - s.first)]
                            ELSE s.stack[k]],
                       first |-> s.first + n]]

PushTemp(f, t, owner, spill) ==
    LET s == Append(f.st[t].stack, [owner |-> owner, loc |-> NoSpill])
    IN  SpillUpTo([f EXCEPT !.st[t].stack = s], t,
                  IF spill THEN Len(s) ELSE Len(s) - Limit[t])

PeekTopTemp(f, t) == f.st[t].stack[Len(f.st[t].stack)].loc

\* Mutant: m_firstNoSpill is lowered only when a register's operand is popped.
PopTemp_FirstLowered(f, t) ==
    LET loc == PeekTopTemp(f, t)
        g   == IF loc = NoSpill THEN f ELSE FreeTemp(f, loc)
    IN  [g EXCEPT !.st[t].stack = SubSeq(@, 1, Len(@) - 1),
                  !.st[t].first = IF @ > 0 THEN @ - 1 ELSE 0]

PopTemp(f, t) ==
    LET loc  == PeekTopTemp(f, t)
        left == Len(f.st[t].stack) - 1
        g    == IF loc = NoSpill THEN f ELSE FreeTemp(f, loc)
    IN  [g EXCEPT !.st[t].stack = SubSeq(@, 1, left),
                  !.st[t].first = IF @ > left THEN @ - 1 ELSE @]

ReserveTemp(f, t) == PopTemp(PushTemp(f, t, 0, FALSE), t)

ForceSpillAll(f) ==
    LET g == SpillUpTo(f, "i", Len(f.st["i"].stack))
    IN  SpillUpTo(g, "f", Len(g.st["f"].stack))

GetNumNoSpill(f, t) == Len(f.st[t].stack) - f.st[t].first

CanReserveWithoutSpill(f, t) == GetNumNoSpill(f, t) < Limit[t]

\* FIStackFrameManager::Reset, once per function.
Reset == [base |-> StartOffset, top |-> StartOffset, max |-> StartOffset,
          free |-> <<>>, old |-> <<>>,
          st |-> [t \in Types |-> [stack |-> <<>>, first |-> 0]]]

-----------------------------------------------------------------------------
(* The nodes.  "leaf" and "part" are arithmetic with both or one operand   *)
(* inlined into the boilerplate, "cast" converts an integer to a float,    *)
(* "arith" and "cmp" have both operands outlined, "call" calls a function. *)

\* The type of the operands of an expression node.
OperandType(n) == nodes[nodes[n].args[1]].type

\* A node that the first pass has not visited yet.
Fresh(t) == [op |-> "none", type |-> t, args |-> <<>>, spill |-> 0]

\* The visit of node n finds operator op and operands of the given types.
Grow(n, op, types) ==
    /\ Len(nodes) + Len(types) <= MaxNodes
    /\ nodes' = [nodes EXCEPT ![n].op = op,
                    ![n].args = [k \in 1..Len(types) |-> Len(nodes) + k]]
                \o [k \in 1..Len(types) |-> Fresh(types[k])]

Task(call, n, loc, k) == [call |-> call, n |-> n, loc |-> loc, k |-> k]

\* The innermost pending call, and the ones around it.
Doing(call) == work # <<>> /\ work[1].call = call
Node == work[1].n
Rest == Tail(work)

Init ==
    /\ fm = Reset
    /\ nodes = <<>> /\ stmts = <<>>
    /\ phase = "setup" /\ at = 0
    /\ locals = <<>> /\ work = <<>> /\ code = <<>>

-----------------------------------------------------------------------------
(* First pass: FastInterpSetupSpillLocation *)

\* AstDeclareVariable of a variable with an initializer: the assignment's
\* destination is inlined, its source is not.
SetupStatement ==
    /\ phase = "setup" /\ work = <<>>
    /\ Len(stmts) < MaxStmts /\ Len(nodes) < MaxNodes
    /\ \E t \in Types : \E size \in Sizes[t] :
        /\ nodes' = Append(nodes, Fresh(t))
        /\ stmts' = Append(stmts, [root |-> Len(nodes) + 1, size |-> size])
        /\ fm' = ReserveTemp(fm, t)
        /\ work' = <<Task("setup", Len(nodes) + 1, NoSpill, 0)>>
    /\ UNCHANGED <<phase, at, locals, code>>

SetupLeaf ==
    /\ Doing("setup")
    /\ Grow(Node, "leaf", <<>>)
    /\ work' = Rest
    /\ UNCHANGED <<fm, stmts, phase, at, locals, code>>

SetupOneOperand ==
    /\ Doing("setup")
    /\ \E op \in {"part", "cast"} :
        LET t == IF op = "part" THEN nodes[Node].type ELSE "i" IN
        /\ op = "cast" => nodes[Node].type = "f"
        /\ Grow(Node, op, <<t>>)
        /\ fm' = ReserveTemp(fm, t)
        /\ work' = <<Task("setup", Len(nodes) + 1, NoSpill, 0)>> \o Rest
    /\ UNCHANGED <<stmts, phase, at, locals, code>>

\* Mutant: no register is reserved for the right operand.
SetupTwoOperands_NoReserve ==
    /\ Doing("setup")
    /\ \E op \in {"arith", "cmp"}, t \in Types :
        /\ IF op = "cmp" THEN nodes[Node].type = "i" ELSE nodes[Node].type = t
        /\ Grow(Node, op, <<t, t>>)
        /\ fm' = PushTemp(fm, t, Node, FALSE)
        /\ work' = <<Task("setup", Len(nodes) + 2, NoSpill, 0),
                     Task("setupLeft", Node, NoSpill, 0)>> \o Rest
    /\ UNCHANGED <<stmts, phase, at, locals, code>>

\* The left operand is a temporary while the right one is visited.
SetupTwoOperands ==
    /\ Doing("setup")
    /\ \E op \in {"arith", "cmp"}, t \in Types :
        /\ IF op = "cmp" THEN nodes[Node].type = "i" ELSE nodes[Node].type = t
        /\ Grow(Node, op, <<t, t>>)
        /\ fm' = ReserveTemp(PushTemp(fm, t, Node, FALSE), t)
        /\ work' = <<Task("setup", Len(nodes) + 2, NoSpill, 0),
                     Task("setupLeft", Node, NoSpill, 0)>> \o Rest
    /\ UNCHANGED <<stmts, phase, at, locals, code>>

\* m_fiIsLhsSpill is read off, then the left operand is visited.
SetupLeft ==
    /\ Doing("setupLeft")
    /\ LET t == OperandType(Node) IN
        /\ nodes' = [nodes EXCEPT ![Node].spill =
                        IF PeekTopTemp(fm, t) = NoSpill THEN 0 ELSE 1]
        /\ fm' = PopTemp(fm, t)
    /\ work' = <<Task("setup", nodes[Node].args[1], NoSpill, 0)>> \o Rest
    /\ UNCHANGED <<stmts, phase, at, locals, code>>

\* Mutant: the call does not spill the temporaries around it.
SetupCall_NoForceSpill ==
    /\ Doing("setup")
    /\ \E n \in 0..MaxParams : \E types \in [1..n -> Types] :
        Grow(Node, "call", types)
    /\ fm' = PushTemp(fm, "i", Node, FALSE)
    /\ work' = <<Task("setupParam", Node, NoSpill, 1)>> \o Rest
    /\ UNCHANGED <<stmts, phase, at, locals, code>>

\* A call spills every temporary and keeps the callee's frame address in one.
SetupCall ==
    /\ Doing("setup")
    /\ \E n \in 0..MaxParams : \E types \in [1..n -> Types] :
        Grow(Node, "call", types)
    /\ fm' = PushTemp(ForceSpillAll(fm), "i", Node, FALSE)
    /\ work' = <<Task("setupParam", Node, NoSpill, 1)>> \o Rest
    /\ UNCHANGED <<stmts, phase, at, locals, code>>

\* Before parameter k: m_fastInterpSpillNewSfAddrAt becomes the parameter that
\* first made the address spill (here counted from 1, 0 for none).
SetupParam ==
    /\ Doing("setupParam")
    /\ LET k     == work[1].k
           args  == nodes[Node].args
           moved == k > 1 /\ nodes[Node].spill = 0
                          /\ PeekTopTemp(fm, "i") # NoSpill
       IN
        /\ nodes' = IF moved THEN [nodes EXCEPT ![Node].spill = k - 1] ELSE nodes
        /\ IF k <= Len(args)
           THEN /\ fm' = ReserveTemp(fm, nodes[args[k]].type)
                /\ work' = <<Task("setup", args[k], NoSpill, 0),
                             Task("setupParam", Node, NoSpill, k + 1)>> \o Rest
           ELSE /\ fm' = PopTemp(fm, "i")
                /\ work' = Rest
    /\ UNCHANGED <<stmts, phase, at, locals, code>>

\* The first pass is over when the body has been walked.
SetupDone ==
    /\ phase = "setup" /\ work = <<>> /\ stmts # <<>>
    /\ phase' = "prepare"
    /\ UNCHANGED <<fm, nodes, stmts, at, locals, work, code>>

-----------------------------------------------------------------------------
(* Second pass: PrepareForFastInterp.  A boilerplate carries oip integral  *)
(* and ofp floating registers through.                                     *)

\* The boilerplate of node n, whose result goes to loc: a node with all its
\* operands in one class carries the whole other class through.
Inst(n, loc, left) ==
    LET op  == nodes[n].op
        t   == nodes[n].type
        all == IF op = "part" /\ t = "f" THEN Limit["i"]
               ELSE GetNumNoSpill(fm, "i")
        flt == IF (op = "part" /\ t = "i") \/ (op = "cmp" /\ OperandType(n) = "i")
               THEN Limit["f"] ELSE GetNumNoSpill(fm, "f")
    IN  [op |-> op, n |-> n, loc |-> loc, left |-> left,
         num |-> [c \in Types |-> IF c = "i" THEN all ELSE flt]]

\* A snippet: the boilerplates in the order of their continuations.
Return(snippet, rest) == code' = <<snippet>> \o rest

PrepareStatement ==
    /\ phase = "prepare" /\ work = <<>> /\ at < Len(stmts)
    /\ LET s == stmts[at + 1]
           p == GetLocalVar(fm, s.size, s.size)
       IN
        /\ fm' = p
        /\ locals' = Append(locals, [root |-> s.root, size |-> s.size,
                                     off |-> p.base - s.size])
        /\ work' = <<Task("prepare", s.root, NoSpill, 0),
                     Task("assign", s.root, NoSpill, 0)>>
    /\ at' = at + 1
    /\ UNCHANGED <<nodes, stmts, phase, code>>

\* FIPartialInlineLhsAssignImpl stores the value into the variable.
PrepareAssign ==
    /\ Doing("assign")
    /\ LET v == locals[Len(locals)]
           t == nodes[Node].type
           i == [op |-> "assign", n |-> Node, loc |-> v.off, left |-> v.size,
                 num |-> [c \in Types |-> IF c = t THEN GetNumNoSpill(fm, c)
                                                   ELSE Limit[c]]]
           before == IF Len(code) > 1 THEN code[2] ELSE <<>>
       IN code' = <<before \o Append(code[1], i)>>
    /\ work' = Rest
    /\ UNCHANGED <<fm, nodes, stmts, phase, at, locals>>

PrepareLeaf ==
    /\ Doing("prepare") /\ nodes[Node].op = "leaf"
    /\ Return(<<Inst(Node, work[1].loc, NoSpill)>>, code)
    /\ work' = Rest
    /\ UNCHANGED <<fm, nodes, stmts, phase, at, locals>>

PrepareOneOperand ==
    /\ Doing("prepare") /\ nodes[Node].op \in {"part", "cast"}
    /\ work' = <<Task("prepare", nodes[Node].args[1], NoSpill, 0),
                 Task("one", Node, work[1].loc, 0)>> \o Rest
    /\ UNCHANGED <<fm, nodes, stmts, phase, at, locals, code>>

PrepareOneDone ==
    /\ Doing("one")
    /\ Return(Append(code[1], Inst(Node, work[1].loc, NoSpill)), Tail(code))
    /\ work' = Rest
    /\ UNCHANGED <<fm, nodes, stmts, phase, at, locals>>

\* The right operand's code is generated first, the left one's runs first.
PrepareTwoOperands ==
    /\ Doing("prepare") /\ nodes[Node].op \in {"arith", "cmp"}
    /\ fm' = PushTemp(fm, OperandType(Node), Node, nodes[Node].spill = 1)
    /\ work' = <<Task("prepare", nodes[Node].args[2], NoSpill, 0),
                 Task("left", Node, work[1].loc, 0)>> \o Rest
    /\ UNCHANGED <<nodes, stmts, phase, at, locals, code>>

\* Mutant: the spill location is not handed to the left operand.
PrepareLeft_NoSpill ==
    /\ Doing("left")
    /\ work' = <<Task("prepare", nodes[Node].args[1], NoSpill, 0),
                 Task("two", Node, work[1].loc, NoSpill)>> \o Rest
    /\ fm' = PopTemp(fm, OperandType(Node))
    /\ UNCHANGED <<nodes, stmts, phase, at, locals, code>>

PrepareLeft ==
    /\ Doing("left")
    /\ LET loc == PeekTopTemp(fm, OperandType(Node)) IN
        work' = <<Task("prepare", nodes[Node].args[1], loc, 0),
                  Task("two", Node, work[1].loc, loc)>> \o Rest
    /\ fm' = PopTemp(fm, OperandType(Node))
    /\ UNCHANGED <<nodes, stmts, phase, at, locals, code>>

PrepareTwoDone ==
    /\ Doing("two")
    /\ Return(code[1] \o Append(code[2], Inst(Node, work[1].loc, work[1].k)),
              Tail(Tail(code)))
    /\ work' = Rest
    /\ UNCHANGED <<fm, nodes, stmts, phase, at, locals>>

PrepareCall ==
    /\ Doing("prepare") /\ nodes[Node].op = "call"
    /\ fm' = PushTemp(ForceSpillAll(fm), "i", Node, FALSE)
    /\ Return(<<[op |-> "call", n |-> Node, loc |-> NoSpill, left |-> NoSpill,
                 num |-> [c \in Types |-> 0]]>>, code)
    /\ work' = <<Task("param", Node, work[1].loc, 1)>> \o Rest
    /\ UNCHANGED <<nodes, stmts, phase, at, locals>>

\* Parameter k: its code, behind the spill of the frame address if the first
\* pass found that this parameter needs the register, and the store.
PrepareParam ==
    /\ Doing("param") /\ work[1].k <= Len(nodes[Node].args)
    /\ LET k     == work[1].k
           spill == nodes[Node].spill = k
           f     == IF spill THEN ForceSpillAll(fm) ELSE fm
       IN
        /\ fm' = f
        /\ code' = IF spill
                   THEN [code EXCEPT ![1] = Append(@,
                            [op |-> "spillSf", n |-> Node, left |-> NoSpill,
                             loc |-> PeekTopTemp(f, "i"),
                             num |-> [c \in Types |-> 0]])]
                   ELSE code
        /\ work' = <<Task("prepare", nodes[Node].args[k], NoSpill, 0),
                     Task("store", Node, work[1].loc, k)>> \o Rest
    /\ UNCHANGED <<nodes, stmts, phase, at, locals>>

PrepareStore ==
    /\ Doing("store")
    /\ LET k == work[1].k
           i == [op |-> "store", n |-> nodes[Node].args[k], loc |-> Node,
                 left |-> PeekTopTemp(fm, "i"), num |-> [c \in Types |-> 0]]
       IN  Return(code[2] \o Append(code[1], i), Tail(Tail(code)))
    /\ work' = <<Task("param", Node, work[1].loc, work[1].k + 1)>> \o Rest
    /\ UNCHANGED <<fm, nodes, stmts, phase, at, locals>>

PrepareCallDone ==
    /\ Doing("param") /\ work[1].k > Len(nodes[Node].args)
    /\ fm' = PopTemp(fm, "i")
    /\ Return(Append(code[1], [op |-> "return", n |-> Node, loc |-> work[1].loc,
                               left |-> NoSpill, num |-> [c \in Types |-> 0]]),
              Tail(code))
    /\ work' = Rest
    /\ UNCHANGED <<nodes, stmts, phase, at, locals>>

\* The scope of the innermost variable ends (AstScope::PrepareForFastInterp).
PopLocalVar ==
    /\ phase = "prepare" /\ work = <<>> /\ locals # <<>>
    /\ fm' = PlannerPopLocalVar(fm)
    /\ locals' = SubSeq(locals, 1, Len(locals) - 1)
    /\ UNCHANGED <<nodes, stmts, phase, at, work, code>>

PrepareDone ==
    /\ phase = "prepare" /\ work = <<>> /\ at = Len(stmts) /\ locals = <<>>
    /\ phase' = "done"
    /\ UNCHANGED <<fm, nodes, stmts, at, locals, work, code>>

\* The function is compiled.
Finished == phase = "done" /\ UNCHANGED vars

Next ==
    \/ SetupStatement \/ SetupLeaf \/ SetupOneOperand \/ SetupTwoOperands
    \/ SetupLeft \/ SetupCall \/ SetupParam \/ SetupDone
    \/ PrepareStatement \/ PrepareAssign \/ PrepareLeaf \/ PrepareOneOperand
    \/ PrepareOneDone \/ PrepareTwoOperands \/ PrepareLeft \/ PrepareTwoDone
    \/ PrepareCall \/ PrepareParam \/ PrepareStore \/ PrepareCallDone
    \/ PopLocalVar \/ PrepareDone \/ Finished

Spec == Init /\ [][Next]_vars
-----------------------------------------------------------------------------
(* What the generated code does: registers and frame bytes hold the node   *)
(* whose value they have, -n for the address of the frame of call n, and 0 *)
(* for anything else.  This is the meaning of the boilerplates' templates  *)
(* (fastinterp_tpl_*.cpp): operands and results of GHC's calling           *)
(* convention are registers, opaque parameters are carried through.        *)

Machine == [reg |-> [c \in Types |-> [k \in 1..Limit[c] |-> 0]],
            mem |-> [b \in 0..(fm.max - 1) |-> 0], ok |-> TRUE]

\* Registers above the ones carried through are lost.
Keep(m, num) == [m EXCEPT !.reg =
    [c \in Types |-> [k \in 1..Limit[c] |->
                        IF k <= num[c] THEN m.reg[c][k] ELSE 0]]]

Register(m, c, k) == IF k \in 1..Limit[c] THEN m.reg[c][k] ELSE 0

Bytes(off, size) == off..(off + size - 1)

Load(m, off) ==
    IF Bytes(off, 8) \subseteq DOMAIN m.mem
       /\ \A b \in Bytes(off, 8) : m.mem[b] = m.mem[off]
    THEN m.mem[off] ELSE 0

Write(m, off, size, v) ==
    [m EXCEPT !.mem = [b \in DOMAIN @ |-> IF b \in Bytes(off, size) THEN v
                                                                    ELSE @[b]],
              !.ok = @ /\ Bytes(off, size) \subseteq DOMAIN m.mem]

\* The result v of type t goes to the next register or to the spill location.
Result(m, t, num, loc, v) ==
    IF loc = NoSpill
    THEN [m EXCEPT !.ok = @ /\ num[t] < Limit[t],
                   !.reg[t] = [k \in 1..Limit[t] |->
                                IF k = num[t] + 1 THEN v ELSE @[k]]]
    ELSE Write(m, loc, 8, v)

\* The operands boilerplate i takes, in the order of the node's arguments.
Operands(m, i) ==
    LET args == nodes[i.n].args
        c    == nodes[args[1]].type
        next == i.num[c] + 1
    IN  CASE Len(args) = 0 -> <<>>
          [] Len(args) = 1 -> <<Register(m, c, next)>>
          [] i.left = NoSpill -> <<Register(m, c, next), Register(m, c, next + 1)>>
          [] OTHER -> <<Load(m, i.left), Register(m, c, next)>>

\* A parameter's store: the frame address and the value.
Stored(m, i) ==
    LET t == nodes[i.n].type IN
    IF i.left = NoSpill
    THEN <<Register(m, "i", 1), Register(m, t, IF t = "i" THEN 2 ELSE 1)>>
    ELSE <<Load(m, i.left), Register(m, t, 1)>>

Run(m, i) ==
    CASE i.op = "call" ->
            Result(Keep(m, i.num), "i", i.num, NoSpill, -i.n)
      [] i.op = "spillSf" ->
            Write(Keep(m, i.num), i.loc, 8, Register(m, "i", 1))
      [] i.op = "store" ->
            [Keep(m, [c \in Types |-> IF c = "i" /\ i.left = NoSpill THEN 1 ELSE 0])
                EXCEPT !.ok = @ /\ Stored(m, i) = <<-i.loc, i.n>>]
      [] i.op = "return" ->
            Result(Keep(m, i.num), nodes[i.n].type, i.num, i.loc, i.n)
      [] i.op = "assign" ->
            Write([m EXCEPT !.ok = @ /\ LET c == nodes[i.n].type
                                        IN  Register(m, c, i.num[c] + 1) = i.n],
                  i.loc, i.left, i.n)
      [] OTHER ->
            Result([Keep(m, i.num) EXCEPT
                        !.ok = @ /\ Operands(m, i) = nodes[i.n].args],
                   nodes[i.n].type, i.num, i.loc, i.n)

\* The machine after the code of the statements generated so far.
Final ==
    LET is == IF code = <<>> THEN <<>> ELSE code[1]
        after[k \in 0..Len(is)] == IF k = 0 THEN Machine
                                   ELSE Run(after[k - 1], is[k])
    IN  after[Len(is)]

-----------------------------------------------------------------------------
(* Properties *)

\* The spill slots of the operands on the two stacks.
SlotOf(x) == fm.st[x[1]].stack[x[2]].loc

SpillSlots == {x \in Types \X (1..MaxNodes) :
                  x[2] <= Len(fm.st[x[1]].stack) /\ SlotOf(x) # NoSpill}

\* No two things of the frame share a byte: a spilled operand lies above the
\* variables, below the top and in no other operand's slot, no free slot is in
\* use or listed twice, variables do not overlap, and the frame size covers
\* them all (GetTemp, FreeTemp, GetLocalVar, PopLocalVar and SpillUpTo).
NoOverlap ==
    /\ fm.base <= fm.top /\ fm.top <= fm.max
    /\ \A x \in SpillSlots :
        /\ fm.base <= SlotOf(x) /\ SlotOf(x) + 8 <= fm.top
        /\ SlotOf(x) % 8 = 0
        /\ \A y \in SpillSlots : x # y => SlotOf(x) # SlotOf(y)
        /\ \A k \in 1..Len(fm.free) : fm.free[k] # SlotOf(x)
    /\ \A j, k \in 1..Len(fm.free) : j # k => fm.free[j] # fm.free[k]
    /\ \A j \in 1..Len(locals) :
        /\ locals[j].off % locals[j].size = 0
        /\ locals[j].off + locals[j].size <=
                IF j < Len(locals) THEN locals[j + 1].off ELSE fm.base

\* Spilling goes from the bottom of an operand stack: exactly the operands
\* 1..m_firstNoSpill have a location, and what is left fits the registers
\* (the assertion of GetNumNoSpill).
SpilledBelow ==
    \A t \in Types :
        /\ fm.st[t].first \in 0..Len(fm.st[t].stack)
        /\ \A k \in 1..Len(fm.st[t].stack) :
            (fm.st[t].stack[k].loc # NoSpill) <=> (k <= fm.st[t].first)
        /\ GetNumNoSpill(fm, t) <= Limit[t]

\* The second pass spills what the first pass announced and nothing else: a
\* left operand has a location exactly if m_fiIsLhsSpill says so, at any time
\* it is on the stack, and the address of a callee's frame exactly from the
\* parameter the first pass recorded on.
SecondPassAgrees ==
    phase = "prepare" =>
        \A t \in Types : \A k \in 1..Len(fm.st[t].stack) :
            LET o == fm.st[t].stack[k]
                a == nodes[o.owner]
            IN  IF a.op = "call"
                THEN \A j \in 1..Len(work) :
                        (work[j].n = o.owner /\ work[j].call = "store")
                        => ((o.loc # NoSpill) <=>
                            (a.spill # 0 /\ a.spill <= work[j].k))
                ELSE (o.loc # NoSpill) <=> (a.spill = 1)

\* Where the second pass asks for a value in a register there is one: the
\* assertion CanReserveWithoutSpill before every operand that is not spilled.
RegisterIsFree ==
    (Doing("prepare") /\ work[1].loc = NoSpill)
        => CanReserveWithoutSpill(fm, nodes[Node].type)

\* The generated code computes every node from the values of its own operands,
\* hands every call its own parameters and frame, stays inside the frame, and
\* leaves every variable in scope with the value of its initializer, whatever
\* was spilled, reused or carried through on the way.
CodeIsRight ==
    (phase # "setup" /\ work = <<>>) =>
        /\ Final.ok
        /\ \A j \in 1..Len(locals) :
            \A b \in Bytes(locals[j].off, locals[j].size) :
                Final.mem[b] = locals[j].root
=============================================================================
