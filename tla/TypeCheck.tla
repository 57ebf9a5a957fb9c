------------------------------ MODULE TypeCheck ------------------------------
(***************************************************************************)
(* The statement half of TypeCheckVisitor (src/type_check_visitor.cxx):    *)
(* its walk over a program's functions, blocks and statements, the stack   *)
(* of variable scopes, the loop counter and the map of known functions.    *)
(*                                                                         *)
(* The syntax tree is not built beforehand: each action is the visit of a  *)
(* statement, or the return from a block, and the walk over any tree the   *)
(* parser can produce is a behaviour.  Expressions are typed by the        *)
(* operators InferTop and CheckExpr (module ExprTyping when TLC runs).     *)
(*                                                                         *)
(* loop_depth is never initialised by the class (type_check_visitor.h:125) *)
(* so its first value is a parameter: {0} for the value-initialised object *)
(* of the tests, any value for the one declared in frontend.cxx:27.        *)
(***************************************************************************)
EXTENDS Types, Sequences, FiniteSets

CONSTANTS
    Names,              \* variable names
    FnNames,            \* function names
    Exprs,              \* expressions a statement may hold
    Annotations,        \* type annotations a declaration may carry
    InferTop(_, _, _),  \* infer_expr_top_level(expression, variables, functions)
    CheckExpr(_, _, _, _), \* check_expr(expression, type, variables, functions)
    InitialLoopDepths,  \* what loop_depth may hold before the first visit
    LoopMod,            \* loop_depth is an unsigned counter modulo LoopMod
    MaxFns,             \* bound: functions in the program
    MaxDepth            \* bound: blocks open at once

\* A declaration with no annotation.
NoAnnotation == "NoAnnotation"

VARIABLES
    scopes,        \* _scope_map: a sequence of maps from names to types
    deficit,       \* pops of an empty _scope_map: its end lies that many
                   \* slots before its begin
    loop_depth,    \* the counter visit_statement_loop keeps
    start,         \* history: the value loop_depth held at first
    function_map,  \* names of the functions whose visit is complete
    walk,          \* the blocks being visited, outermost first
    current,       \* name of the function being visited
    fns,           \* functions whose visit is complete
    status         \* running, accepted, rejected (TypeError), crashed

vars == <<scopes, deficit, loop_depth, start, function_map, walk, current,
          fns, status>>

EmptyScope == [n \in Names |-> Sentinel]

(***************************************************************************)
(* What a block is the body of.  An if's then-block is of one of three     *)
(* kinds: the if has no if_else, its if_else is a block, or its if_else is *)
(* another IfStatement (elseif).                                           *)
(***************************************************************************)
ThenBlocks == {"then", "thenElse", "thenElseIf"}
Blocks     == {"fn", "else", "loop"} \cup ThenBlocks

NoFunction == "NoFunction"

ScopeMaps == [Names -> BuiltinTypes \cup {Sentinel}]

ASSUME BoundsAssumption ==
    /\ MaxFns \in Nat
    /\ MaxDepth \in Nat
    /\ LoopMod \in Nat /\ MaxDepth < LoopMod
    /\ InitialLoopDepths \subseteq 0 .. (LoopMod - 1)
    /\ Annotations \subseteq BuiltinTypes
    /\ NoFunction \notin FnNames

\* infer_expr_top_level "always resolves to non-literal concrete type".
ASSUME InferTopAssumption ==
    \A e \in Exprs, v \in ScopeMaps, f \in SUBSET FnNames :
        LET r == InferTop(e, v, f)
        IN  r.ok \in BOOLEAN /\ (r.ok => r.type \in BuiltinTypes)

(***************************************************************************)
(* VariableScopeStack.  A scope pushed while the end lies before the begin *)
(* is stored outside the range that find iterates over: find sees only the *)
(* slots from deficit + 1 on, and searches them outermost first.  (With a  *)
(* deficit beyond the number of open scopes the search would not stop:     *)
(* MemoryFault stands for it.)                                             *)
(***************************************************************************)
Slots(s) == (deficit + 1) .. Len(s)

Hits(s, n) == {i \in Slots(s) : s[i][n] # Sentinel}

Outermost(I) == CHOOSE i \in I : \A j \in I : i <= j

find(s, n) == IF Hits(s, n) = {} THEN Sentinel
                                 ELSE s[Outermost(Hits(s, n))][n]

Visible(s) == [n \in Names |-> find(s, n)]

Push(s)     == Append(s, EmptyScope)
Pop(s)      == SubSeq(s, 1, Len(s) - 1)
Top         == walk[Len(walk)]
Unwound     == Pop(walk)
store(n, t) == [scopes EXCEPT ![Len(scopes)][n] = t]

(***************************************************************************)
(* Guards.  A statement is visited inside some block; a nested block may   *)
(* be opened while the walk is not too deep.                               *)
(***************************************************************************)
InBlock      == status = "running" /\ walk # << >>
At(kinds)    == status = "running" /\ walk # << >> /\ Top \in kinds
MayNest      == Len(walk) < MaxDepth
Accepts(r)   == status' = IF r.ok THEN "running" ELSE "rejected"

Init ==
    /\ scopes = <<EmptyScope>>
    /\ deficit = 0
    /\ loop_depth \in InitialLoopDepths
    /\ start = loop_depth
    /\ function_map = {}
    /\ walk = << >>
    /\ current = NoFunction
    /\ fns = 0
    /\ status = "running"

(***************************************************************************)
(* visit_statement_program and visit_statement_fn_decl.                    *)
(***************************************************************************)
\* Mutant of EnterFunction: the name is known within its own body.
EnterFunctionKnown(f) ==
    /\ status = "running"
    /\ walk = << >>
    /\ fns < MaxFns
    /\ MaxDepth > 0
    /\ scopes' = Push(scopes)
    /\ walk' = <<"fn">>
    /\ current' = f
    /\ function_map' = function_map \cup {f}
    /\ UNCHANGED <<deficit, loop_depth, start, fns, status>>

EnterFunction(f) ==
    /\ status = "running"
    /\ walk = << >>
    /\ fns < MaxFns
    /\ MaxDepth > 0
    /\ scopes' = Push(scopes)
    /\ walk' = <<"fn">>
    /\ current' = f
    /\ UNCHANGED <<deficit, loop_depth, start, function_map, fns, status>>

\* Mutant of LeaveFunction: the name is read after it was reset.
LeaveFunctionLate ==
    /\ At({"fn"})
    /\ walk' = << >>
    /\ current' = NoFunction
    /\ function_map' = function_map \cup {current'}
    /\ fns' = fns + 1
    /\ IF Len(scopes) > 1
       THEN /\ scopes' = Pop(Pop(scopes))
            /\ UNCHANGED <<deficit, status>>
       ELSE /\ scopes' = << >>
            /\ deficit' = deficit + 1
            /\ status' \in {"running", "crashed"}
    /\ UNCHANGED <<loop_depth, start>>

\* The body's block pops its scope, the function becomes known, and the loop
\* of visit_statement_program pops once more.  Popping an empty vector is
\* undefined: the map destroyed there lies outside the vector, so the process
\* dies or the vector's end is left before its begin.
LeaveFunction ==
    /\ At({"fn"})
    /\ walk' = << >>
    /\ function_map' = function_map \cup {current}
    /\ current' = NoFunction
    /\ fns' = fns + 1
    /\ IF Len(scopes) > 1
       THEN /\ scopes' = Pop(Pop(scopes))
            /\ UNCHANGED <<deficit, status>>
       ELSE /\ scopes' = << >>
            /\ deficit' = deficit + 1
            /\ status' \in {"running", "crashed"}
    /\ UNCHANGED <<loop_depth, start>>

\* A later access through the corrupted vector may still kill the process.
MemoryFault ==
    /\ status = "running"
    /\ deficit > 0
    /\ status' = "crashed"
    /\ UNCHANGED <<scopes, deficit, loop_depth, start, function_map, walk,
                   current, fns>>

(***************************************************************************)
(* Simple statements.                                                      *)
(***************************************************************************)
\* Mutant of Declare: only the innermost scope is searched for the name.
DeclareShadowing(n, a, e) ==
    LET r == IF a = NoAnnotation THEN InferTop(e, Visible(scopes), function_map)
             ELSE CheckExpr(e, a, Visible(scopes), function_map)
        t == IF a = NoAnnotation THEN r.type ELSE a
    IN  /\ InBlock
        /\ IF scopes[Len(scopes)][n] = Sentinel /\ r.ok
           THEN scopes' = store(n, t) /\ UNCHANGED status
           ELSE status' = "rejected" /\ UNCHANGED scopes
        /\ UNCHANGED <<deficit, loop_depth, start, function_map, walk,
                       current, fns>>

Declare(n, a, e) ==
    LET r == IF a = NoAnnotation THEN InferTop(e, Visible(scopes), function_map)
             ELSE CheckExpr(e, a, Visible(scopes), function_map)
        t == IF a = NoAnnotation THEN r.type ELSE a
    IN  /\ InBlock
        /\ IF find(scopes, n) = Sentinel /\ r.ok
           THEN scopes' = store(n, t) /\ UNCHANGED status
           ELSE status' = "rejected" /\ UNCHANGED scopes
        /\ UNCHANGED <<deficit, loop_depth, start, function_map, walk,
                       current, fns>>

Assign(n, e) ==
    /\ InBlock
    /\ IF find(scopes, n) = Sentinel
       THEN status' = "rejected"
       ELSE Accepts(CheckExpr(e, find(scopes, n), Visible(scopes), function_map))
    /\ UNCHANGED <<scopes, deficit, loop_depth, start, function_map, walk,
                   current, fns>>

Show(e) ==
    /\ InBlock
    /\ Accepts(InferTop(e, Visible(scopes), function_map))
    /\ UNCHANGED <<scopes, deficit, loop_depth, start, function_map, walk,
                   current, fns>>

\* The type of the returned value is not compared with the function's.
Return(e) ==
    /\ InBlock
    /\ Accepts(InferTop(e, Visible(scopes), function_map))
    /\ UNCHANGED <<scopes, deficit, loop_depth, start, function_map, walk,
                   current, fns>>

(***************************************************************************)
(* visit_statement_if.  The condition is checked against Bool in the       *)
(* enclosing scope; each branch is a block with a scope of its own.        *)
(***************************************************************************)
Condition(e, s) == CheckExpr(e, "Bool", Visible(s), function_map)

EnterIf(e, kind) ==
    /\ InBlock
    /\ MayNest
    /\ Accepts(Condition(e, scopes))
    /\ IF Condition(e, scopes).ok
       THEN scopes' = Push(scopes) /\ walk' = Append(walk, kind)
       ELSE UNCHANGED <<scopes, walk>>
    /\ UNCHANGED <<deficit, loop_depth, start, function_map, current, fns>>

\* Mutant of LeaveIf: the branch's scope stays on the stack.
LeaveIfNoPop ==
    /\ At({"then", "else"})
    /\ walk' = Unwound
    /\ UNCHANGED <<scopes, deficit, loop_depth, start, function_map, current,
                   fns, status>>

\* Return from the last branch of an if, and from the ifs it is the else of.
LeaveIf ==
    /\ At({"then", "else"})
    /\ scopes' = Pop(scopes)
    /\ walk' = Unwound
    /\ UNCHANGED <<deficit, loop_depth, start, function_map, current, fns,
                   status>>

\* Mutant of EnterElse: the then-block's scope stays on the stack.
EnterElseNoPop ==
    /\ At({"thenElse"})
    /\ scopes' = Push(scopes)
    /\ walk' = Append(Unwound, "else")
    /\ UNCHANGED <<deficit, loop_depth, start, function_map, current, fns,
                   status>>

\* The then-block's scope is popped before the else-block's is pushed.
EnterElse ==
    /\ At({"thenElse"})
    /\ scopes' = Push(Pop(scopes))
    /\ walk' = Append(Unwound, "else")
    /\ UNCHANGED <<deficit, loop_depth, start, function_map, current, fns,
                   status>>

\* Mutant of ElseIf: the branches of the chain share one scope.
ElseIfSharedScope(e, kind) ==
    /\ At({"thenElseIf"})
    /\ Accepts(Condition(e, scopes))
    /\ IF Condition(e, scopes).ok
       THEN walk' = Append(Unwound, kind) /\ UNCHANGED scopes
       ELSE scopes' = Pop(scopes) /\ walk' = Unwound
    /\ UNCHANGED <<deficit, loop_depth, start, function_map, current, fns>>

\* An elseif's condition is checked when the scope of the branch before it
\* is gone.
ElseIf(e, kind) ==
    /\ At({"thenElseIf"})
    /\ Accepts(Condition(e, Pop(scopes)))
    /\ IF Condition(e, Pop(scopes)).ok
       THEN scopes' = Push(Pop(scopes)) /\ walk' = Append(Unwound, kind)
       ELSE scopes' = Pop(scopes) /\ walk' = Unwound
    /\ UNCHANGED <<deficit, loop_depth, start, function_map, current, fns>>

(***************************************************************************)
(* visit_statement_loop, visit_statement_break, visit_statement_cycle.     *)
(***************************************************************************)
EnterLoop ==
    /\ InBlock
    /\ MayNest
    /\ loop_depth' = (loop_depth + 1) % LoopMod
    /\ scopes' = Push(scopes)
    /\ walk' = Append(walk, "loop")
    /\ UNCHANGED <<deficit, start, function_map, current, fns, status>>

\* Mutant of LeaveLoop: the counter is left as it is.
LeaveLoopNoDecrement ==
    /\ At({"loop"})
    /\ scopes' = Pop(scopes)
    /\ walk' = Unwound
    /\ UNCHANGED <<deficit, loop_depth, start, function_map, current, fns,
                   status>>

LeaveLoop ==
    /\ At({"loop"})
    /\ scopes' = Pop(scopes)
    /\ walk' = Unwound
    /\ loop_depth' = (loop_depth - 1) % LoopMod
    /\ UNCHANGED <<deficit, start, function_map, current, fns, status>>

\* Break and cycle are checked alike.
Jump ==
    /\ InBlock
    /\ status' = IF loop_depth = 0 THEN "rejected" ELSE "running"
    /\ UNCHANGED <<scopes, deficit, loop_depth, start, function_map, walk,
                   current, fns>>

\* The program has no further function: the visit of the tree is complete.
Finish ==
    /\ status = "running"
    /\ walk = << >>
    /\ status' = "accepted"
    /\ UNCHANGED <<scopes, deficit, loop_depth, start, function_map, walk,
                   current, fns>>

Terminated ==
    /\ status # "running"
    /\ UNCHANGED vars

Statement ==
    \/ \E n \in Names, e \in Exprs :
          \/ \E a \in Annotations \cup {NoAnnotation} : Declare(n, a, e)
          \/ Assign(n, e)
    \/ \E e \in Exprs : Show(e) \/ Return(e)
    \/ Jump

Branch ==
    \/ \E e \in Exprs, kind \in ThenBlocks : EnterIf(e, kind) \/ ElseIf(e, kind)
    \/ EnterElse
    \/ LeaveIf

Next ==
    \/ \E f \in FnNames : EnterFunction(f)
    \/ LeaveFunction
    \/ MemoryFault
    \/ Statement
    \/ Branch
    \/ EnterLoop
    \/ LeaveLoop
    \/ Finish
    \/ Terminated

Spec == Init /\ [][Next]_vars

-----------------------------------------------------------------------------

TypeOK ==
    /\ scopes \in Seq(ScopeMaps)
    /\ deficit \in Nat
    /\ loop_depth \in 0 .. (LoopMod - 1)
    /\ start \in InitialLoopDepths
    /\ function_map \subseteq FnNames
    /\ walk \in Seq(Blocks)
    /\ current \in FnNames \cup {NoFunction}
    /\ fns \in 0 .. MaxFns
    /\ status \in {"running", "accepted", "rejected", "crashed"}

\* Every open block has exactly one scope of its own, and each scope its
\* block, over every way a block can be left (the end of a branch, of an
\* elseif chain, of a loop, of a function, an error in an elseif's condition).
\* The base scope the constructor pushes is the one exception: it is there
\* until the first function ends, and every later function pops once more
\* than was pushed (visit_statement_program, line 194).
ScopesMatchBlocks ==
    /\ Len(scopes) = Len(walk) + (IF fns = 0 THEN 1 ELSE 0)
    /\ deficit = IF fns = 0 THEN 0 ELSE fns - 1

\* A declaration in any open scope is what find returns for its name.  find
\* searches the outermost scope first, the wrong way round for a language
\* with shadowing: this holds only because a declaration is refused while
\* its name is visible in any enclosing block.
LiveMeansVisible ==
    deficit = 0 =>
        \A i \in DOMAIN scopes, n \in Names :
            scopes[i][n] # Sentinel => find(scopes, n) = scopes[i][n]

LoopOpen == \E i \in DOMAIN walk : walk[i] = "loop"

\* The guard of break and cycle (loop_depth # 0) accepts exactly the jumps
\* that have an enclosing loop in the same function.
JumpGuardExact == loop_depth # 0 <=> LoopOpen

\* A break or cycle that no loop encloses is refused.
\* (tests/type_check_test.cxx:283-309, ThrowsWhenBreakOutsideLoop.)
JumpOutsideLoopThrows == InBlock /\ ~LoopOpen => loop_depth = 0

\* Checking a program of well-formed functions never pops the empty scope
\* stack.  (README.md:8-28 compiles a program of two functions.)
SampleProgramChecks == deficit = 0 /\ status # "crashed"

(***************************************************************************)
(* The refinement of LexicalScope.  A slot of the stack belongs to the     *)
(* block as far from the top; the base scope, when it is there, to none.   *)
(* Once an empty stack was popped nothing more is claimed: the abstract    *)
(* state stays as it is, with no block open.                               *)
(***************************************************************************)
Intact       == deficit = 0
SlotLevel(i) == i - (Len(scopes) - Len(walk))

Lexical == INSTANCE LexicalScope WITH
    BlockKinds <- Blocks,
    DeclTypes  <- BuiltinTypes,
    Unbound    <- Sentinel,
    open       <- IF Intact THEN walk ELSE << >>,
    type       <- IF Intact THEN Visible(scopes) ELSE EmptyScope,
    level      <- [n \in Names |->
                      IF Intact /\ Hits(scopes, n) # {}
                      THEN SlotLevel(Outermost(Hits(scopes, n))) ELSE 0]

\* The walk implements lexical scoping: what find sees after each step is
\* what opening, closing and declaring in nested blocks would make visible,
\* and nothing of a function's variables is left when the next one begins.
ImplementsLexicalScope == Lexical!LexicalSpec
==============================================================================
