------------------------------ MODULE Frontend -------------------------------
(***************************************************************************)
(* compile() of src/frontend.cxx from the syntax tree on: the type checker *)
(* visits the whole tree; only a tree it accepts is visited again by the   *)
(* code generator; then the module is verified.                            *)
(*                                                                         *)
(* The tree is the sequence of its statements and block ends in the order  *)
(* both visitors meet them.  It is chosen while the type checker walks it, *)
(* kept in tree, and read again by the code generator.                     *)
(***************************************************************************)
EXTENDS Integers, Sequences, FiniteSets

CONSTANTS
    Names, FnNames, Exprs, Annotations,
    InferTop(_, _, _), CheckExpr(_, _, _, _),
    InitialLoopDepths, LoopMod,
    VarsOf(_), CallsOf(_), Printf,
    MaxFns,        \* bound: functions in the program
    MaxDepth,      \* bound: blocks open at once
    MaxTree        \* bound: length of tree

VARIABLES
    tree, pos,
    scopes, deficit, loop_depth, start, function_map, walk, current, fns, tc,
    blocks, cur, named_values, loop_stack, symbols, frames, built, uses, calls, faults, cg

\* The code generator is bounded by the tree alone: an if adds at most three
\* basic blocks and two frames.
TC == INSTANCE TypeCheck WITH status <- tc
CG == INSTANCE Codegen   WITH status <- cg, MaxBlocks <- 3 * MaxTree,
                              MaxDepth <- 2 * MaxTree

tcVars == <<scopes, deficit, loop_depth, start, function_map, walk, current,
            fns, tc>>
cgVars == <<blocks, cur, named_values, loop_stack, symbols, frames, built, uses,
            calls, faults, cg>>
fvars  == <<tree, pos, tcVars, cgVars>>

ASSUME BoundsAssumption ==
    /\ MaxFns \in Nat
    /\ MaxDepth \in Nat
    /\ LoopMod \in Nat /\ MaxDepth < LoopMod
    /\ InitialLoopDepths \subseteq 0 .. (LoopMod - 1)
    /\ Annotations \subseteq TC!BuiltinTypes
    /\ TC!NoFunction \notin FnNames

\* The two passes read the same expression: one that infer_expr_top_level or
\* check_expr accepts has variables find returns and functions of function_map.
ASSUME ExprsAssumption ==
    \A e \in Exprs :
        /\ VarsOf(e) \subseteq Names
        /\ \A v \in TC!ScopeMaps, f \in SUBSET FnNames :
               LET r     == InferTop(e, v, f)
                   found == /\ \A n \in VarsOf(e) : v[n] # TC!Sentinel
                            /\ CallsOf(e) \subseteq f
               IN  /\ r.ok \in BOOLEAN
                   /\ r.ok => r.type \in TC!BuiltinTypes /\ found
                   /\ \A t \in TC!BuiltinTypes : CheckExpr(e, t, v, f).ok => found

Init ==
    /\ TC!Init
    /\ CG!CInit
    /\ tree = << >>
    /\ pos = 1

(***************************************************************************)
(* The type checker's visit (frontend.cxx:29).                             *)
(***************************************************************************)
\* The ends of blocks a tree still has to have.
Owed(w) == Len(w) + Cardinality({i \in DOMAIN w : w[i] \in {"thenElse", "thenElseIf"}})

\* A tree that is rejected is not read again: its last node is not kept.
Visit(node) ==
    /\ tree' = IF tc' = "rejected" THEN tree ELSE Append(tree, node)
    /\ Len(tree') + Owed(walk') <= MaxTree
    /\ UNCHANGED <<pos, cgVars>>

Leaf(op)          == [op |-> op]
WithExpr(op, e)   == [op |-> op, e |-> e]
WithKind(op, e, k) == [op |-> op, e |-> e, kind |-> k]
WithName(op, n, e) == [op |-> op, n |-> n, e |-> e]

CheckStatement ==
    \/ \E n \in Names, e \in Exprs :
          \/ /\ \E a \in Annotations \cup {TC!NoAnnotation} : TC!Declare(n, a, e)
             /\ Visit(WithName("declare", n, e))
          \/ TC!Assign(n, e) /\ Visit(WithName("assign", n, e))
    \/ \E e \in Exprs :
          \/ TC!Show(e) /\ Visit(WithExpr("show", e))
          \/ TC!Return(e) /\ Visit(WithExpr("return", e))
    \/ TC!Jump /\ (Visit(Leaf("break")) \/ Visit(Leaf("cycle")))

CheckBranch ==
    \/ \E e \in Exprs, k \in TC!ThenBlocks :
          \/ TC!EnterIf(e, k) /\ Visit(WithKind("if", e, k))
          \/ TC!ElseIf(e, k) /\ Visit(WithKind("elseif", e, k))
    \/ TC!EnterElse /\ Visit(Leaf("else"))
    \/ TC!LeaveIf /\ Visit(Leaf("endif"))

CheckLoop ==
    \/ TC!EnterLoop /\ Visit(Leaf("loop"))
    \/ TC!LeaveLoop /\ Visit(Leaf("endloop"))

CheckFunction ==
    \/ \E f \in FnNames : TC!EnterFunction(f) /\ Visit([op |-> "fn", f |-> f])
    \/ TC!LeaveFunction /\ Visit(Leaf("endfn"))

\* The visit ends, or the process dies of the corrupted scope stack.
CheckEnds == (TC!Finish \/ TC!MemoryFault) /\ UNCHANGED <<tree, pos, cgVars>>

(***************************************************************************)
(* The code generator's visit (frontend.cxx:38) and compile().             *)
(***************************************************************************)
Generating == tc = "accepted"
Node       == tree[pos]

\* pos stays at a node whose visit throws.
Next1 == /\ pos' = IF cg' = "threw" THEN pos ELSE pos + 1
         /\ UNCHANGED <<tree, tcVars>>

Build(n) ==
    CASE n.op = "fn"      -> CG!BuildFunction(n.f)
      [] n.op = "endfn"   -> CG!EndFunction
      [] n.op = "declare" -> CG!BuildDeclare(n.n, n.e)
      [] n.op = "assign"  -> CG!BuildAssign(n.n, n.e)
      [] n.op = "show"    -> CG!BuildShow(n.e)
      [] n.op = "return"  -> CG!BuildReturn(n.e)
      [] n.op = "break"   -> CG!BuildBreak
      [] n.op = "cycle"   -> CG!BuildCycle
      [] n.op = "if"      -> CG!BuildIf(n.e, n.kind)
      [] n.op = "elseif"  -> CG!BuildElseIf(n.e, n.kind)
      [] n.op = "else"    -> CG!BuildElse
      [] n.op = "endif"   -> CG!EndIf
      [] n.op = "loop"    -> CG!BuildLoop
      [] n.op = "endloop" -> CG!EndLoop

\* The if that was the if_else of another is complete.
InnerIfDone == frames # << >> /\ frames[Len(frames)].kind = "elseif"

Generate ==
    /\ Generating
    /\ cg = "running"
    /\ \/ InnerIfDone /\ CG!EndIf /\ UNCHANGED <<tree, pos, tcVars>>
       \/ ~InnerIfDone /\ pos <= Len(tree) /\ Build(Node) /\ Next1

Compile ==
    /\ Generating
    /\ \/ pos > Len(tree) /\ ~InnerIfDone /\ CG!EndProgram
       \/ CG!Verify
    /\ UNCHANGED <<tree, pos, tcVars>>

Stopped == /\ tc \in {"rejected", "crashed"} \/ cg \in {"verified", "invalid", "threw"}
           /\ UNCHANGED fvars

Next ==
    \/ CheckStatement
    \/ CheckBranch
    \/ CheckLoop
    \/ CheckFunction
    \/ CheckEnds
    \/ Generate
    \/ Compile
    \/ Stopped

Spec == Init /\ [][Next]_fvars

-----------------------------------------------------------------------------
\* For a tree the checker accepted, every variable, function and loop the code
\* generator looks up is there: it throws for one reason only, a name declared
\* again in one function, after the block that declared it first.
LookupsSucceed ==
    cg = "threw" => /\ Node.op = "declare"
                    /\ named_values[Node.n] # 0
                    /\ blocks[named_values[Node.n]].fn = built

\* In an accepted program every call reaches a function that was complete
\* before the caller began (0: printf), whatever names the functions share: no
\* compiled program calls itself, directly or around, and the function the
\* checker typed a call by exists when the call is built.
CallsGoBack == \A c \in calls : c[2] < c[1]

\* Lexical scoping as the checker enforces it is enough for SSA: the block of
\* a variable's alloca dominates every block that loads or stores it.
AllocaDominatesUse == cg = "built" => CG!UsesDominated

\* The verdict of the verifier on an accepted tree depends on where its jumps
\* and returns stand, and on no other choice of statements and blocks.  (What
\* it finds wrong within an expression is the business of Expressions.)
VerdictByShape ==
    /\ cg = "verified" => faults = {}
    /\ cg = "invalid" => faults # {}

\* A tree the checker accepted is lowered.  ("From here I just lower this tree
\* directly to LLVM IR", README.md:76.)
AcceptedTreeLowers == cg # "threw"
==============================================================================
