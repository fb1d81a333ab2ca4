--------------------------- MODULE ScopedVariables ---------------------------
(***************************************************************************)
(* PochiVM's ScopedVariableManager in the fast interpreter's mode: which   *)
(* destructors the generated code runs when control leaves a scope, by     *)
(* reaching its end, by break, continue or return, or by an exception.     *)
(*                                                                         *)
(* The destructors of an exception are a tree of shared blocks: a throw    *)
(* point branches to a block that destroys the objects of the innermost    *)
(* scope and falls through to the blocks of the scopes around it.  The     *)
(* manager keeps only the path to the current position                     *)
(* (m_fiExceptionDtorTree) and extends it when it is asked for a block.    *)
(* Scopes are closed and others opened between two questions, so a block   *)
(* that is kept too long destroys the wrong objects.                       *)
(*                                                                         *)
(* The generator walks a function body; the body is chosen during the      *)
(* walk, one action per AST node's PrepareForFastInterp or part of one.    *)
(***************************************************************************)
EXTENDS Integers, Sequences, SequencesExt

CONSTANTS
    MaxDepth,   \* bound: scopes open at once
    MaxObjects, \* bound: variables of the generated functions
    MaxFns      \* bound: functions generated one after the other

ASSUME ScopeAssumption ==
    MaxDepth \in Nat \ {0} /\ MaxObjects \in Nat /\ MaxFns \in Nat

VARIABLES
    scopes,   \* m_scopeStack: the open scopes, each with its variables
    num,      \* m_numNontrivialDestructorObjects
    tree,     \* m_fiExceptionDtorTree: boundary and branch target of a level
    targets,  \* m_fiBreakStmtTarget and m_fiContinueStmtTarget: their scopes
    catch,    \* m_fiCurrentEHCatchBlock: the function it was made for, 0 for none
    fn,       \* the function being generated (m_curFunction), counted from 1
    noexcept, \* its GetIsNoExcept()
    walk,     \* the AST nodes around the current position
    live,     \* the variables that are alive at the current position
    made,     \* variables declared so far
    jump      \* the way out of a scope that the last step generated, if any

manager == <<scopes, num, tree, targets, catch>>
vars == <<scopes, num, tree, targets, catch, fn, noexcept, walk, live, made, jump>>

-----------------------------------------------------------------------------
(* ScopedVariableManager *)

\* The destructor calls for a list of variables: in reverse order, and nothing
\* for a variable whose destructor is trivial.
Dtors(objs) ==
    LET calls[n \in 0..Len(objs)] ==
            IF n = 0 THEN <<>>
            ELSE IF objs[n].nontrivial THEN <<objs[n]>> \o calls[n - 1]
            ELSE calls[n - 1]
    IN  calls[Len(objs)]

NumNontrivial(objs) == Len(Dtors(objs))

\* FIGenerateDestructorSequenceUntilScope: from the innermost scope outwards up
\* to the boundary (inclusive), through all of them for the null scope 0.
DestructorSequenceUntil(boundary) ==
    LET hits  == {k \in 1..Len(scopes) : scopes[k].scope = boundary}
        first == IF hits = {} THEN 1 ELSE CHOOSE k \in hits : \A j \in hits : j <= k
    IN  FlattenSeq([k \in 1..(Len(scopes) - first + 1) |->
                        Dtors(scopes[Len(scopes) + 1 - k].objs)])

\* Mutant: the level of a closed scope stays.
PopTree_Kept(t, depth) == t

\* PopScope drops at most the innermost level of the tree.
PopTree(t, depth) == IF Len(t) > depth THEN SubSeq(t, 1, Len(t) - 1) ELSE t

\* Mutant: no block for the variables declared since the innermost kept level.
ExtendedTree_NoNews(s, t) ==
    LET root == IF t = <<>>
                THEN <<[boundary |-> Len(s[1].objs), target |-> Dtors(s[1].objs)]>>
                ELSE t
        n    == Len(root)
        to[k \in n..Len(s)] ==
            IF k = n THEN root[n].target ELSE Dtors(s[k].objs) \o to[k - 1]
    IN  [k \in 1..Len(s) |->
            IF k <= n THEN root[k]
                      ELSE [boundary |-> Len(s[k].objs), target |-> to[k]]]

\* The path of FIGenerateEHEntryPointForCurrentPosition, s being the scopes and
\* t the path kept so far: the root block, a block in front of the innermost
\* kept level for its new variables, and a block per scope above it.
ExtendedTree(s, t) ==
    LET root == IF t = <<>>
                THEN <<[boundary |-> Len(s[1].objs), target |-> Dtors(s[1].objs)]>>
                ELSE t
        n    == Len(root)
        news == SubSeq(s[n].objs, root[n].boundary + 1, Len(s[n].objs))
        to[k \in n..Len(s)] ==
            IF k = n THEN Dtors(news) \o root[n].target
                     ELSE Dtors(s[k].objs) \o to[k - 1]
    IN  [k \in 1..Len(s) |->
            IF k < n THEN root[k]
                     ELSE [boundary |-> Len(s[k].objs), target |-> to[k]]]

\* Whether the exception goes straight to the catch block: nothing to destroy,
\* or the function is noexcept and the program terminates.
StraightToCatch(count) == count = 0 \/ noexcept

-----------------------------------------------------------------------------
(* The walk.  Inner is the AST node around the position; "dead" says that  *)
(* the statements so far end in a jump, after which the AST has no more.   *)

Inner == walk[Len(walk)]
Open(kind) == [kind |-> kind, mark |-> Len(live), dead |-> FALSE]
Here == walk # <<>> /\ ~Inner.dead

\* Positions where a statement may stand; the header of a for loop takes
\* declarations (init block) and expressions only, a throw expressions only.
InBlock == Here /\ Inner.kind \notin {"for", "step", "throw"}

\* The generated jump: the destructors it runs, the variables alive there, and
\* how many of them stay alive.
Way(kind, dtors, alive, mark, to) ==
    [kind |-> kind, dtors |-> dtors, alive |-> alive, mark |-> mark, to |-> to]

NoWay == Way("none", <<>>, <<>>, 0, 0)

Init ==
    /\ scopes = <<>> /\ num = 0 /\ tree = <<>> /\ targets = <<>> /\ catch = 0
    /\ fn = 0 /\ noexcept = FALSE
    /\ walk = <<>> /\ live = <<>> /\ made = 0
    /\ jump = NoWay

\* AstFunction::PrepareForFastInterp sets the operation mode, which resets the
\* manager, and generates the body.
StartFunction ==
    /\ walk = <<>> /\ fn < MaxFns
    /\ \E b \in BOOLEAN : noexcept' = b
    /\ fn' = fn + 1
    /\ scopes' = <<[scope |-> 1, objs |-> <<>>]>>
    /\ num' = 0 /\ tree' = <<>> /\ targets' = <<>> /\ catch' = 0
    /\ walk' = <<Open("fn")>>
    /\ jump' = NoWay
    /\ UNCHANGED <<live, made>>

\* AstScope and the then clause of an if: a scope.  AstWhileLoop: the targets
\* of break and continue name the scope of the body.
EnterScope ==
    /\ InBlock /\ Len(scopes) < MaxDepth
    /\ \E kind \in {"scope", "while"} :
        /\ targets' = IF kind = "while" THEN Append(targets, Len(scopes) + 1)
                                        ELSE targets
        /\ walk' = Append(walk, Open(kind))
    /\ scopes' = Append(scopes, [scope |-> Len(scopes) + 1, objs |-> <<>>])
    /\ jump' = NoWay
    /\ UNCHANGED <<num, tree, catch, fn, noexcept, live, made>>

\* Mutant: break and continue also leave the scope of the init block.
EnterFor_OwnScope ==
    /\ InBlock /\ Len(scopes) < MaxDepth - 1
    /\ targets' = Append(targets, Len(scopes) + 1)
    /\ scopes' = Append(scopes, [scope |-> Len(scopes) + 1, objs |-> <<>>])
    /\ walk' = Append(walk, Open("for"))
    /\ jump' = NoWay
    /\ UNCHANGED <<num, tree, catch, fn, noexcept, live, made>>

\* AstForLoop is a scope for its init block; its targets name the scope of the
\* body, which is not open yet.
EnterFor ==
    /\ InBlock /\ Len(scopes) < MaxDepth - 1
    /\ targets' = Append(targets, Len(scopes) + 2)
    /\ scopes' = Append(scopes, [scope |-> Len(scopes) + 1, objs |-> <<>>])
    /\ walk' = Append(walk, Open("for"))
    /\ jump' = NoWay
    /\ UNCHANGED <<num, tree, catch, fn, noexcept, live, made>>

EnterForBody ==
    /\ Here /\ Inner.kind = "for"
    /\ scopes' = Append(scopes, [scope |-> Len(scopes) + 1, objs |-> <<>>])
    /\ walk' = Append(walk, Open("body"))
    /\ jump' = NoWay
    /\ UNCHANGED <<num, tree, targets, catch, fn, noexcept, live, made>>

\* FIGenerateEHEntryPointForCurrentPosition with the variables of the scopes s.
ExceptionAt(s, count, alive) ==
    LET path == ExtendedTree(s, tree)
        to   == IF catch = 0 THEN fn ELSE catch
    IN  /\ catch' = to
        /\ IF StraightToCatch(count)
           THEN /\ tree' = tree
                /\ jump' = Way("throw", <<>>, alive, 0, to)
           ELSE /\ tree' = path
                /\ jump' = Way("throw", path[Len(s)].target, alive, 0, to)

\* A call that is not noexcept, in any expression at this position.
CallMayThrow ==
    /\ Here
    /\ ExceptionAt(scopes, num, live)
    /\ UNCHANGED <<scopes, num, targets, fn, noexcept, walk, live, made>>

Var(nontrivial) == [id |-> made + 1, nontrivial |-> nontrivial]

\* AstDeclareVariable: the constructor may throw before the variable counts.
Declare ==
    /\ Here /\ Inner.kind \notin {"step", "throw"} /\ made < MaxObjects
    /\ \E nt \in BOOLEAN, throws \in BOOLEAN :
        /\ IF throws THEN ExceptionAt(scopes, num, live)
                     ELSE jump' = NoWay /\ UNCHANGED <<tree, catch>>
        /\ scopes' = [scopes EXCEPT ![Len(scopes)].objs = Append(@, Var(nt))]
        /\ num' = num + IF nt THEN 1 ELSE 0
        /\ live' = Append(live, Var(nt))
    /\ made' = made + 1
    /\ UNCHANGED <<targets, fn, noexcept, walk>>

\* AstThrowStmt opens a scope without a node, for the exception object; what is
\* thrown, or the constructor's call, is generated in it and may itself throw.
EnterThrow ==
    /\ InBlock
    /\ scopes' = Append(scopes, [scope |-> 0, objs |-> <<>>])
    /\ walk' = Append(walk, Open("throw"))
    /\ jump' = NoWay
    /\ UNCHANGED <<num, tree, targets, catch, fn, noexcept, live, made>>

Dead == [walk EXCEPT ![Len(walk)].dead = TRUE]

\* An lvalue is thrown: the exception is a copy made behind the throw.
ThrowLValue ==
    /\ Here /\ Inner.kind = "throw"
    /\ ExceptionAt(scopes, num, live)
    /\ walk' = Dead
    /\ UNCHANGED <<scopes, num, targets, fn, noexcept, live, made>>

\* Anything else is constructed in a temporary of the scope, which the exception
\* leaves too.
ThrowObject ==
    /\ Here /\ Inner.kind = "throw" /\ made < MaxObjects
    /\ \E nt \in BOOLEAN :
        /\ scopes' = [scopes EXCEPT ![Len(scopes)].objs = Append(@, Var(nt))]
        /\ num' = num + IF nt THEN 1 ELSE 0
        /\ live' = Append(live, Var(nt))
        /\ ExceptionAt(scopes', num', live')
    /\ made' = made + 1
    /\ walk' = Dead
    /\ UNCHANGED <<targets, fn, noexcept>>

\* The innermost loop's body, as the language sees it.
LoopMark ==
    LET bodies == {k \in 1..Len(walk) : walk[k].kind \in {"while", "body"}}
    IN  walk[CHOOSE k \in bodies : \A j \in bodies : j <= k].mark

\* AstBreakOrContinueStmt: both targets of a loop name the same scope.
BreakOrContinue ==
    /\ InBlock /\ targets # <<>>
    /\ jump' = Way("break", DestructorSequenceUntil(targets[Len(targets)]),
                   live, LoopMark, fn)
    /\ walk' = Dead
    /\ UNCHANGED <<manager, fn, noexcept, live, made>>

ReturnStatement ==
    /\ InBlock
    /\ jump' = Way("return", DestructorSequenceUntil(0), live, 0, fn)
    /\ walk' = Dead
    /\ UNCHANGED <<manager, fn, noexcept, live, made>>

\* AstScope, AstForLoop and AstThrowStmt at their end: the variables' destructors
\* unless the scope ends in a jump, then PopScope, and the loop's targets are
\* popped.  Code may follow a throw.
LeaveScope ==
    /\ walk # <<>> /\ Inner.kind # "for"
    /\ Inner.kind = "throw" => Inner.dead
    /\ jump' = IF Inner.dead THEN NoWay
               ELSE Way("end", DestructorSequenceUntil(scopes[Len(scopes)].scope),
                        live, Inner.mark, fn)
    /\ num' = num - NumNontrivial(scopes[Len(scopes)].objs)
    /\ tree' = PopTree(tree, Len(scopes) - 1)
    /\ scopes' = SubSeq(scopes, 1, Len(scopes) - 1)
    /\ targets' = IF Inner.kind \in {"while", "step"}
                  THEN SubSeq(targets, 1, Len(targets) - 1) ELSE targets
    /\ live' = SubSeq(live, 1, Inner.mark)
    /\ walk' = LET out == SubSeq(walk, 1, Len(walk) - 1) IN
               IF Inner.kind = "body" THEN [out EXCEPT ![Len(out)].kind = "step"]
               ELSE IF Inner.kind = "scope" /\ Inner.dead
               THEN [out EXCEPT ![Len(out)].dead = TRUE]
               ELSE out
    /\ UNCHANGED <<catch, fn, noexcept, made>>

\* Mutant: the variables of the clause stay counted.
LeaveIf_CountKept ==
    /\ walk # <<>> /\ Inner.kind = "scope" /\ Inner.dead
    /\ tree' = PopTree(tree, Len(scopes) - 1)
    /\ scopes' = SubSeq(scopes, 1, Len(scopes) - 1)
    /\ live' = SubSeq(live, 1, Inner.mark)
    /\ walk' = SubSeq(walk, 1, Len(walk) - 1)
    /\ jump' = NoWay
    /\ UNCHANGED <<num, targets, catch, fn, noexcept, made>>

\* The then clause of an if ended in a jump; the code behind the if goes on.
LeaveIf ==
    /\ walk # <<>> /\ Inner.kind = "scope" /\ Inner.dead
    /\ num' = num - NumNontrivial(scopes[Len(scopes)].objs)
    /\ tree' = PopTree(tree, Len(scopes) - 1)
    /\ scopes' = SubSeq(scopes, 1, Len(scopes) - 1)
    /\ live' = SubSeq(live, 1, Inner.mark)
    /\ walk' = SubSeq(walk, 1, Len(walk) - 1)
    /\ jump' = NoWay
    /\ UNCHANGED <<targets, catch, fn, noexcept, made>>

\* All functions are generated.
Finished == walk = <<>> /\ fn = MaxFns /\ UNCHANGED vars

Next ==
    \/ StartFunction \/ EnterScope \/ EnterFor \/ EnterForBody
    \/ CallMayThrow \/ Declare
    \/ EnterThrow \/ ThrowLValue \/ ThrowObject
    \/ BreakOrContinue \/ ReturnStatement \/ LeaveScope \/ LeaveIf
    \/ Finished

Spec == Init /\ [][Next]_vars

-----------------------------------------------------------------------------
(* Properties *)

\* The variables have their shapes, and the count of non-trivial variables is
\* the one the scopes hold (PushObject and PopScope).
TypeOK ==
    /\ Len(scopes) = Len(walk)
    /\ num = NumNontrivial(live)
    /\ fn \in 0..MaxFns /\ catch \in 0..fn /\ made \in 0..MaxObjects
    /\ Len(targets) <= Len(scopes)

\* The variables that go out of scope on the jump, the last one first.
Leaving == Dtors(SubSeq(jump.alive, jump.mark + 1, Len(jump.alive)))

\* An exception runs the destructors of exactly the variables that are alive
\* where it is thrown, each once and in reverse order of construction, and ends
\* in the handler of its own function; a noexcept function destroys nothing
\* (FIGenerateEHEntryPointForCurrentPosition).
ExceptionDestroysLive ==
    jump.kind = "throw" =>
        /\ jump.dtors = IF noexcept THEN <<>> ELSE Leaving
        /\ jump.to = fn

\* break, continue, return and the end of a scope run the destructors of
\* exactly the variables they take out of scope, in reverse order
\* (FIGenerateDestructorSequenceUntilScope with the boundaries the AST nodes
\* pass).
JumpDestroysLeft ==
    jump.kind \in {"break", "return", "end"} => jump.dtors = Leaving

\* The path kept in m_fiExceptionDtorTree belongs to the scopes that are open
\* now: no level beyond them, every level but the innermost complete (the
\* assertions at both ends of FIGenerateEHEntryPointForCurrentPosition), and
\* each block destroys the first variables of its level and all below.
TreeIsCurrent ==
    /\ Len(tree) <= Len(scopes)
    /\ \A k \in 1..Len(tree) :
        LET kept == [j \in 1..k |-> IF j < k THEN scopes[j].objs
                        ELSE SubSeq(scopes[j].objs, 1, tree[j].boundary)]
        IN  /\ tree[k].target = Dtors(FlattenSeq(kept))
            /\ k < Len(tree) => tree[k].boundary = Len(scopes[k].objs)
=============================================================================
