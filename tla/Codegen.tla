------------------------------- MODULE Codegen -------------------------------
(***************************************************************************)
(* The statement half of CodegenVisitor (src/codegen/                      *)
(* code_generation_visitor.cxx) and the verifyModule call of compile():    *)
(* the basic blocks it creates, where its builder inserts, the map from    *)
(* variable names to allocas, and the stack of loop blocks.                *)
(*                                                                         *)
(* As in TypeCheck an action is the visit of a statement or the return     *)
(* from a block, for any program the parser can produce.  Of an expression *)
(* only the names it uses matter here: its value is ExprLowering's.        *)
(***************************************************************************)
EXTENDS Integers, Sequences, FiniteSets

CONSTANTS
    Names, FnNames, Exprs,
    VarsOf(_),     \* the variables an expression loads
    CallsOf(_),    \* the functions it calls
    Printf,        \* the name of the function declared in the constructor
    MaxFns,        \* bound: functions in the program
    MaxBlocks,     \* bound: basic blocks in the module
    MaxDepth       \* bound: blocks of the syntax tree open at once

ASSUME ExprsAssumption == \A e \in Exprs : VarsOf(e) \subseteq Names

VARIABLES
    blocks,        \* the module's basic blocks, in the order of creation
    cur,           \* the builder's insert block, an index of blocks
    named_values,  \* the block that holds each variable's alloca; 0: null
    loop_stack,    \* _loop_stack: the [body, end] of the loops being built
    symbols,       \* the module's functions by name; 0: the external printf
    frames,        \* the statements being visited, outermost first
    built,         \* functions begun so far
    uses,          \* history: <<block of the alloca, block of the load or store>>
    calls,         \* history: <<function, function it calls>>
    faults,        \* history: what in the source the verifier will object to
    status         \* running, built, verified, invalid, threw

cvars == <<blocks, cur, named_values, loop_stack, symbols, frames, built, uses,
           calls, faults, status>>

ThenBlocks == {"then", "thenElse", "thenElseIf"}
Kinds      == ThenBlocks \cup {"fn", "else", "elseif", "loop"}

\* What the last statement of a block was.
Jumps == {"jump", "return"}
Lasts == Jumps \cup {"none", "other"}

Faults == {"statementAfterJump", "loopEndsInJump", "noReturn", "callOfPrintf"}

(***************************************************************************)
(* Blocks.  term is getTerminator(): the last instruction is a terminator. *)
(* torn: a terminator is followed by another instruction.                  *)
(***************************************************************************)
NewBlock(f) == [fn |-> f, term |-> FALSE, torn |-> FALSE, succ |-> {}]

Insert(bs, b, isTerm, targets) ==
    [bs EXCEPT ![b] = [fn   |-> bs[b].fn,
                       term |-> isTerm,
                       torn |-> bs[b].torn \/ bs[b].term,
                       succ |-> bs[b].succ \cup targets]]

Instruction(bs, b)    == Insert(bs, b, FALSE, {})
CreateBr(bs, b, dest) == Insert(bs, b, TRUE, {dest})
CreateRet(bs, b)      == Insert(bs, b, TRUE, {})

\* Mutant of BrUnlessTerminated: the branch is created in any case.
BrAlways(bs, b, dest) == CreateBr(bs, b, dest)

\* "If there's a return statement in the block, skip br inst"
BrUnlessTerminated(bs, b, dest) ==
    IF bs[b].term THEN bs ELSE CreateBr(bs, b, dest)

(***************************************************************************)
(* Frames of the recursive visit.                                          *)
(***************************************************************************)
Frame(kind, body, els, end) ==
    [kind |-> kind, body |-> body, els |-> els, end |-> end, last |-> "none"]

Top     == frames[Len(frames)]
Unwound == SubSeq(frames, 1, Len(frames) - 1)

InBlock   == status = "running" /\ frames # << >> /\ Top.kind # "elseif"
At(kinds) == status = "running" /\ frames # << >> /\ Top.kind \in kinds
Room(n)   == Len(blocks) + n <= MaxBlocks

Marked(last) == [frames EXCEPT ![Len(frames)].last = last]
AfterJump    == IF Top.last \in Jumps THEN {"statementAfterJump"} ELSE {}

(***************************************************************************)
(* Expressions: a variable without an alloca and a function the module     *)
(* does not know throw.                                                    *)
(***************************************************************************)
Emits(e) == /\ \A n \in VarsOf(e) : named_values[n] # 0
            /\ CallsOf(e) \subseteq DOMAIN symbols

Loads(e, b) == {<<named_values[n], b>> : n \in VarsOf(e)}

Evaluate(e, b, stores) ==
    /\ uses' = uses \cup Loads(e, b) \cup stores
    /\ calls' = calls \cup {<<built, symbols[f]>> : f \in CallsOf(e)}

\* printf is called with no argument where it has to have one.
CallFaults(e) == IF Printf \in CallsOf(e) THEN {"callOfPrintf"} ELSE {}

\* An exception abandons the module as it is; nothing reads it again.
Throw == /\ status' = "threw"
         /\ UNCHANGED <<blocks, cur, named_values, loop_stack, symbols, frames,
                        built, uses, calls, faults>>

CInit ==
    /\ blocks = << >>
    /\ cur = 0
    /\ named_values = [n \in Names |-> 0]
    /\ loop_stack = << >>
    /\ symbols = [f \in {Printf} |-> 0]
    /\ frames = << >>
    /\ built = 0
    /\ uses = {}
    /\ calls = {}
    /\ faults = {}
    /\ status = "running"

\* Mutant of BuildFunction: the variables of the function before it stay.
BuildFunctionKeepNames(f) ==
    /\ status = "running"
    /\ frames = << >>
    /\ built < MaxFns
    /\ Room(1)
    /\ MaxDepth > 0
    /\ built' = built + 1
    /\ symbols' = [g \in DOMAIN symbols \cup {f} |->
                      IF g \in DOMAIN symbols THEN symbols[g] ELSE built + 1]
    /\ blocks' = Append(blocks, NewBlock(built + 1))
    /\ cur' = Len(blocks) + 1
    /\ frames' = <<Frame("fn", 0, 0, 0)>>
    /\ UNCHANGED <<named_values, loop_stack, uses, calls, faults, status>>

(***************************************************************************)
(* visit(FunctionDeclaration).  A name the module already has is given a   *)
(* suffix by LLVM and getFunction keeps returning the first.               *)
(***************************************************************************)
BuildFunction(f) ==
    /\ status = "running"
    /\ frames = << >>
    /\ built < MaxFns
    /\ Room(1)
    /\ MaxDepth > 0
    /\ built' = built + 1
    /\ named_values' = [n \in Names |-> 0]
    /\ symbols' = [g \in DOMAIN symbols \cup {f} |->
                      IF g \in DOMAIN symbols THEN symbols[g] ELSE built + 1]
    /\ blocks' = Append(blocks, NewBlock(built + 1))
    /\ cur' = Len(blocks) + 1
    /\ frames' = <<Frame("fn", 0, 0, 0)>>
    /\ UNCHANGED <<loop_stack, uses, calls, faults, status>>

EndFunction ==
    /\ At({"fn"})
    /\ frames' = << >>
    /\ faults' = IF Top.last = "return" THEN faults ELSE faults \cup {"noReturn"}
    /\ UNCHANGED <<blocks, cur, named_values, loop_stack, symbols, built, uses, calls,
                   status>>

(***************************************************************************)
(* Simple statements.                                                      *)
(***************************************************************************)
BuildDeclare(n, e) ==
    /\ InBlock
    /\ IF named_values[n] # 0 \/ ~Emits(e)
       THEN Throw
       ELSE /\ blocks' = Instruction(blocks, cur)
            /\ named_values' = [named_values EXCEPT ![n] = cur]
            /\ Evaluate(e, cur, {})
            /\ frames' = Marked("other")
            /\ faults' = faults \cup AfterJump \cup CallFaults(e)
            /\ UNCHANGED <<cur, loop_stack, symbols, built, status>>

BuildAssign(n, e) ==
    /\ InBlock
    /\ IF named_values[n] = 0 \/ ~Emits(e)
       THEN Throw
       ELSE /\ blocks' = Instruction(blocks, cur)
            /\ Evaluate(e, cur, {<<named_values[n], cur>>})
            /\ frames' = Marked("other")
            /\ faults' = faults \cup AfterJump \cup CallFaults(e)
            /\ UNCHANGED <<cur, named_values, loop_stack, symbols, built, status>>

BuildShow(e) ==
    /\ InBlock
    /\ IF ~Emits(e)
       THEN Throw
       ELSE /\ blocks' = Instruction(blocks, cur)
            /\ Evaluate(e, cur, {})
            /\ frames' = Marked("other")
            /\ faults' = faults \cup AfterJump \cup CallFaults(e)
            /\ UNCHANGED <<cur, named_values, loop_stack, symbols, built, status>>

BuildReturn(e) ==
    /\ InBlock
    /\ IF ~Emits(e)
       THEN Throw
       ELSE /\ blocks' = CreateRet(blocks, cur)
            /\ Evaluate(e, cur, {})
            /\ frames' = Marked("return")
            /\ faults' = faults \cup AfterJump \cup CallFaults(e)
            /\ UNCHANGED <<cur, named_values, loop_stack, symbols, built, status>>

(***************************************************************************)
(* visit(IfStatement).  fs: the frames of the statements it stands in.     *)
(* With an if_else three blocks are created, without one two; the builder  *)
(* goes on in the first.                                                   *)
(***************************************************************************)
Size(kind) == IF kind = "then" THEN 2 ELSE 3

OpenIf(e, kind, bs, at, fs) ==
    LET n    == Len(bs)
        els  == IF kind = "then" THEN 0 ELSE n + 2
        more == bs \o [i \in 1 .. Size(kind) |-> NewBlock(bs[at].fn)]
    IN  IF ~Emits(e)
        THEN Throw
        ELSE /\ blocks' = Insert(more, at, TRUE, {n + 1, n + 2})
             /\ cur' = n + 1
             /\ frames' = Append(fs, Frame(kind, 0, els, n + Size(kind)))
             /\ Evaluate(e, at, {})
             /\ UNCHANGED <<named_values, loop_stack, symbols, built, status>>

BuildIf(e, kind) ==
    /\ InBlock
    /\ Len(frames) < MaxDepth
    /\ Room(Size(kind))
    /\ OpenIf(e, kind, blocks, cur, Marked("other"))
    /\ IF Emits(e) THEN faults' = faults \cup AfterJump \cup CallFaults(e) ELSE TRUE

\* A branch ends; the builder goes on in the if's next block.
EndBranch(next, fs) ==
    /\ blocks' = BrUnlessTerminated(blocks, cur, Top.end)
    /\ cur' = next
    /\ frames' = fs
    /\ UNCHANGED <<named_values, loop_stack, symbols, built, uses, calls, faults, status>>

\* "elseif": the if in the else part of another is complete, and so is that.
EndIf == At({"then", "else", "elseif"}) /\ EndBranch(Top.end, Unwound)

BuildElse ==
    /\ At({"thenElse"})
    /\ EndBranch(Top.els, Append(Unwound, Frame("else", 0, 0, Top.end)))

\* The then-branch ends and the builder visits, in if.else, the if that is
\* this one's if_else.
BuildElseIf(e, kind) ==
    /\ At({"thenElseIf"})
    /\ Room(Size(kind))
    /\ Len(frames) < MaxDepth
    /\ OpenIf(e, kind, BrUnlessTerminated(blocks, cur, Top.end), Top.els,
              Append(Unwound, Frame("elseif", 0, 0, Top.end)))
    /\ IF Emits(e) THEN faults' = faults \cup CallFaults(e) ELSE TRUE

(***************************************************************************)
(* visit(LoopStatement).  Both branches to loop.body are unconditional.    *)
(***************************************************************************)
\* Mutant of BuildLoop: loop.end is not created.
BuildLoopNoEnd ==
    LET body == Len(blocks) + 1
        end  == Len(blocks) + 2
    IN  /\ InBlock
        /\ Len(frames) < MaxDepth
        /\ Room(2)
        /\ loop_stack' = Append(loop_stack, [body |-> body, end |-> end])
        /\ blocks' = CreateBr(Append(blocks, NewBlock(blocks[cur].fn)), cur, body)
        /\ cur' = body
        /\ frames' = Append(Marked("other"), Frame("loop", body, 0, end))
        /\ faults' = faults \cup AfterJump
        /\ UNCHANGED <<named_values, symbols, built, uses, calls, status>>

BuildLoop ==
    LET body == Len(blocks) + 1
        end  == Len(blocks) + 2
        more == blocks \o [i \in 1 .. 2 |-> NewBlock(blocks[cur].fn)]
    IN  /\ InBlock
        /\ Len(frames) < MaxDepth
        /\ Room(2)
        /\ loop_stack' = Append(loop_stack, [body |-> body, end |-> end])
        /\ blocks' = CreateBr(more, cur, body)
        /\ cur' = body
        /\ frames' = Append(Marked("other"), Frame("loop", body, 0, end))
        /\ faults' = faults \cup AfterJump
        /\ UNCHANGED <<named_values, symbols, built, uses, calls, status>>

\* Mutant of EndLoop: the loop stays on the loop stack.
EndLoopNoPop ==
    /\ At({"loop"})
    /\ blocks' = CreateBr(blocks, cur, Top.body)
    /\ cur' = Top.end
    /\ frames' = Unwound
    /\ faults' = IF Top.last \in Jumps THEN faults \cup {"loopEndsInJump"}
                                       ELSE faults
    /\ UNCHANGED <<loop_stack, named_values, symbols, built, uses, calls, status>>

EndLoop ==
    /\ At({"loop"})
    /\ blocks' = CreateBr(blocks, cur, Top.body)
    /\ cur' = Top.end
    /\ loop_stack' = SubSeq(loop_stack, 1, Len(loop_stack) - 1)
    /\ frames' = Unwound
    /\ faults' = IF Top.last \in Jumps THEN faults \cup {"loopEndsInJump"}
                                       ELSE faults
    /\ UNCHANGED <<named_values, symbols, built, uses, calls, status>>

(***************************************************************************)
(* visit(BreakStatement), visit(CycleStatement).                           *)
(***************************************************************************)
JumpTo(target) ==
    /\ blocks' = CreateBr(blocks, cur, target)
    /\ frames' = Marked("jump")
    /\ faults' = faults \cup AfterJump
    /\ UNCHANGED <<cur, named_values, loop_stack, symbols, built, uses, calls, status>>

BuildBreak ==
    /\ InBlock
    /\ IF loop_stack = << >> THEN Throw
                             ELSE JumpTo(loop_stack[Len(loop_stack)].end)

BuildCycle ==
    /\ InBlock
    /\ IF loop_stack = << >> THEN Throw
                             ELSE JumpTo(loop_stack[Len(loop_stack)].body)

(***************************************************************************)
(* The visit of the program ends; compile() verifies the module.  (The     *)
(* verifier is LLVM's: every block ends in its only terminator, an alloca's *)
(* block dominates the blocks of its loads and stores, and a call has the  *)
(* arguments its function asks for.)                                       *)
(***************************************************************************)
EndProgram ==
    /\ status = "running"
    /\ frames = << >>
    /\ status' = "built"
    /\ UNCHANGED <<blocks, cur, named_values, loop_stack, symbols, frames, built,
                   uses, calls, faults>>

\* Blocks reached from the blocks of set S along edges that avoid block d.
Step(S, d) == S \cup {b \in DOMAIN blocks \ {d} : \E s \in S : b \in blocks[s].succ}

Reached(S, d) ==
    LET R[n \in 0 .. Len(blocks)] == IF n = 0 THEN S ELSE Step(R[n - 1], d)
    IN  R[Len(blocks)]

Entry(f) == CHOOSE b \in DOMAIN blocks :
                /\ blocks[b].fn = f
                /\ \A c \in DOMAIN blocks : blocks[c].fn = f => b <= c

\* No path from the function's entry reaches u without passing d.
Dominates(d, u) ==
    \/ d = u
    \/ d = Entry(blocks[u].fn)
    \/ u \notin Reached({Entry(blocks[u].fn)}, d)

WellFormed    == \A b \in DOMAIN blocks : blocks[b].term /\ ~blocks[b].torn
UsesDominated == \A p \in uses : /\ blocks[p[1]].fn = blocks[p[2]].fn
                                 /\ Dominates(p[1], p[2])

CallsComplete == \A c \in calls : c[2] # 0

Verify ==
    /\ status = "built"
    /\ status' = IF WellFormed /\ UsesDominated /\ CallsComplete THEN "verified" ELSE "invalid"
    /\ UNCHANGED <<blocks, cur, named_values, loop_stack, symbols, frames, built,
                   uses, calls, faults>>

Stopped == status \in {"verified", "invalid", "threw"} /\ UNCHANGED cvars

BuildStatement ==
    \/ \E n \in Names, e \in Exprs : BuildDeclare(n, e) \/ BuildAssign(n, e)
    \/ \E e \in Exprs : BuildShow(e) \/ BuildReturn(e)
    \/ BuildBreak
    \/ BuildCycle

BuildBranch ==
    \/ \E e \in Exprs, kind \in ThenBlocks : BuildIf(e, kind) \/ BuildElseIf(e, kind)
    \/ BuildElse
    \/ EndIf

CNext ==
    \/ \E f \in FnNames : BuildFunction(f)
    \/ EndFunction
    \/ BuildStatement
    \/ BuildBranch
    \/ BuildLoop
    \/ EndLoop
    \/ EndProgram
    \/ Verify
    \/ Stopped

CSpec == CInit /\ [][CNext]_cvars

-----------------------------------------------------------------------------
TypeOK ==
    /\ \A b \in DOMAIN blocks :
           /\ blocks[b].fn \in 1 .. built
           /\ blocks[b].succ \subseteq DOMAIN blocks
    /\ cur \in 0 .. Len(blocks)
    /\ named_values \in [Names -> 0 .. Len(blocks)]
    /\ DOMAIN symbols \subseteq FnNames \cup {Printf}
    /\ \A f \in DOMAIN symbols : symbols[f] \in 0 .. built
    /\ calls \subseteq ((1 .. built) \X (0 .. built))
    /\ \A i \in DOMAIN frames : frames[i].kind \in Kinds /\ frames[i].last \in Lasts
    /\ uses \subseteq ((DOMAIN blocks) \X (DOMAIN blocks))
    /\ faults \subseteq Faults
    /\ status \in {"running", "built", "verified", "invalid", "threw"}

\* How many of the statements being visited are loops, up to the ith.
LoopsTo(i) == Cardinality({j \in 1 .. i : frames[j].kind = "loop"})

\* The loop stack, which is never cleared and is popped by nothing but the end
\* of a loop, names the loops that enclose the builder's position and no
\* other, innermost last: whatever ifs, elseif chains and jumps lie between,
\* break and cycle leave the innermost enclosing loop of the same function.
LoopStackExact ==
    /\ Len(loop_stack) = LoopsTo(Len(frames))
    /\ \A i \in DOMAIN frames : frames[i].kind = "loop" =>
           loop_stack[LoopsTo(i)] = [body |-> frames[i].body, end |-> frames[i].end]

\* Which programs get through the verifier, said of their source: those where
\* a jump or return is the last statement of its block, no loop body ends in
\* one, each function body ends in a return (an if whose branches all return is
\* not enough, nor a loop without break), and nothing calls printf by name (not
\* even where the program has a printf of its own: that one is renamed).
VerdictExact ==
    /\ status = "verified" => faults = {}
    /\ status = "invalid" => faults # {} \/ ~UsesDominated
==============================================================================
