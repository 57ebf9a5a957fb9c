# Verification of the B2 compiler

This directory models the compiler of the repository (`src/src`, `src/include`)
in TLA+, from the command line to the linker, checks the models with TLC and
proves with TLAPS what the parts promise, for programs and texts of any size.  Paths below are
relative to the repository's root (`src/` in the project map stands before each).

## 1. The system

`b2 <file>` runs `compile()` (`src/frontend.cxx`), one thread, one pass after
another: read the file, tokenise, parse, type check, optionally print, generate
LLVM IR, verify, write `output.o`, link.  Each pass hands its result to the next
by value or by annotating the tree; an exception ends the compilation and is
printed by `main`, which returns 0 all the same.  Two things leave the process:
the files `output.o` and `output`, whose names are fixed, and the `clang` that
`std::system` starts and waits for.

| Component | State it keeps | Operations | Modelled by |
|---|---|---|---|
| `main`, flags | - | parse flags, call `compile`, print exceptions | `Driver` |
| `compile()` | the passes' objects | the sequence of passes | `Driver`; from the tree on `Frontend`, `Expressions` |
| file_io | - | `read_entire_file`, `std::expected` | `Driver` |
| Lexer | `index`, two source locations | `next_token`, `tokenise` | `Lexer` |
| StaticMap, StaticSet | sorted arrays | `find`, `contains` | `StaticMap` |
| Parser | `index` into the tokens, the C++ call stack | recursive descent, precedence climbing | `Parser` |
| AST | annotations `resolved_type`, `operand_type`, `declaration_type` | - | the trees of `ExprTrees`, `tree` of `Frontend` |
| TypeCheckVisitor, statements | `_scope_map`, `loop_depth`, `function_map` | `visit_statement_*` | `TypeCheck`, `LexicalScope` |
| TypeCheckVisitor, expressions | the annotations | `infer_expr*`, `check_expr*`, `resolve_literal_pair` | `Types`, `ExprTrees`, `ExprTyping`, `Expressions` |
| CodegenVisitor, statements | `named_values`, `_loop_stack`, builder position, module | `visit(...)`, `compile` | `Codegen` |
| CodegenVisitor, expressions; operation_map | - | `emit`, `get_llvm_type`, `TypeOperations::apply` | `ExprLowering`, `Expressions` |
| compiler.h | files `output.o`, `output` | emit, link | `Driver` |
| PrintVisitor | `depth`, `output` | one node per visit | not modelled |
| type_checking.cxx | - | - | not modelled: it is not in `CMakeLists.txt` |

What is hard in this code is mostly long legal sequences.  Three stacks (variable
scopes, loops, nested `if`s and their basic blocks) are kept by recursive
visitors and must agree with each other and with the tree after any nesting; two
tables (`function_map`, `named_values`) outlive the construct that filled them;
types of literals are decided twice, once bottom-up and once top-down; the code
generator relies, without checking, on what the type checker let through; and in
the parser an optional `end` decides which construct an `end` belongs to.
Concurrency and failure come in with the file system: two compilations in one
directory share their output files, any step may fail or be killed, and only
printed text tells success from failure.  The tests visit single statements or
expressions.  The hazards are listed one by one, at their lines, in
`PROJECT.json`.

What makes each part correct:

- **lexer**: every character before the end of the stream is white space or in
  one token; tokens are the longest of their kind; words are looked up right;
- **static map**: a search says an entry is there exactly if it is;
- **parser**: expressions group as the operators' levels say; an `end` closes
  what it closes in the text; it never runs over the end and always returns;
- **scope stack**: it holds one scope per open block and nothing else; what
  `find` returns is what lexical scoping makes visible;
- **loop counter**: `break` and `cycle` are accepted exactly inside a loop;
- **typing of expressions**: acceptance does not depend on how operands are
  grouped; annotations are complete and consistent; literals fit their type;
- **code generator**: what the checker accepted can be generated; `break` and
  `cycle` leave the innermost loop; no instruction uses what another function
  or an untaken path defined; which programs the verifier refuses is known;
- **driver**: who prints nothing has built this program; a refused program
  changes no output; leftovers of an earlier or killed compilation do no harm;
  every compilation ends.

## 2. The modules

| Module | Content |
|---|---|
| `StaticMap` | a table sorted at compile time, searched by halving |
| `Lexer` | `tokenise` character by character; uses `StaticMap` for its words |
| `Parser` | recursive descent over the types of tokens |
| `Types` | the types, literal ranges and the promotion table as pure operators |
| `ExprTrees` | the expression nodes with their annotations, and the set of all trees up to a height |
| `ExprTyping` | `infer_expr`, `check_expr` and their callees as operators on annotated trees |
| `ExprLowering` | the LLVM type of each lowered value, or the exception |
| `Expressions` | one expression in one statement: typed, lowered, used |
| `LexicalScope` | abstract: what block scoping is, without a stack |
| `TypeCheck` | the statement walk of the type checker |
| `Codegen` | the statement walk of the code generator, and the verifier |
| `Frontend` | both walks over the same tree |
| `Driver` | `main` and `compile` with the files, `clang`, failures and kills |
| `LexerProofs`, `ParserProofs`, `ExpressionsProofs`, `TypeCheckProofs`, `CodegenProofs`, `DriverProofs` | theorems about the modules they are named after (`LexerProofs` also about `StaticMap`) |
| `FrontendTraceProofs` | the checker's trace of a tree and the generator's regions of blocks, each for its pass alone |
| `FrontendProofs` | theorems about both passes over one tree, on the two modules' own invariants |
| `MC*` | the constants, texts, languages and expressions TLC uses |

**Lexer.**  A character is its class as far as the rules tell, so one letter
stands for all and each symbol for itself.  `rule` is the function that is
active, `start` where its token began; each action consumes one character or
returns from a rule, as the `while` loops of `parse_number` and the others do one
turn.  A look-up starts a search of `StaticMap`, whose steps are the halvings of
`std::ranges::lower_bound`; keys are ranks, as only the order of words matters.
Bytes beyond ASCII are passed to `isalnum` and `isspace` as a negative `char`,
which is undefined; they are taken as unknown characters, which is what the C
locale makes of them.

**Parser.**  `todo` is the C++ call stack read as a list: what the innermost
active `parse_*` function does next comes first, then what its callers still
have to do.  A call puts the callee's body in front; a `while` is an item that
puts itself behind each turn.  The stream is chosen while it is read: `la` is
what `peek()` returns, so TLC branches only on tokens that are looked at.  A leaf
of an expression is the position of its token and an inner node that of its
operator, which makes a tree comparable with the text.  Histories (`closes`)
record which construct consumed which `end`.

**Walks.**  A recursive visitor over a tree is modelled by its sequence of
steps: entering a block, a simple statement, leaving a block.  `walk`
(`TypeCheck`) and `frames` (`Codegen`) are the C++ call stack of the visitor,
cut down to the statements with blocks.  Which statement comes next is chosen
nondeterministically, so the behaviours of `TypeCheck` are the visits of every
tree the grammar allows.  An `if` with an `else`, with an `elseif` and without
either are told apart when it is entered (`ThenBlocks`), for the tree already
decides that.  Each action is one visit up to the next block boundary: for
instance `LeaveFunction` is the end of `visit_statement_block_stmt`, the entry
in `function_map`, and the pop in the loop of `visit_statement_program`.

**The vector popped when empty.**  `_scope_map.pop_back()` on the empty vector
is undefined.  What happens: the destructor runs on memory outside the vector
and the end pointer moves before the begin.  The process dies (`crashed`) or
goes on with a stack whose first slots lie outside the range `find` iterates
over; `deficit` counts them and `MemoryFault` may end the process later.

**Literals.**  The range tests compare with 2^k - 1 or 2^k only, so a literal is
its rank among these bounds (`Types`), which keeps every boundary and makes
64-bit widths finite.  The grammar has no negative literals.

**Expressions.**  A tree is a record with records in it, and a visitor that
writes annotations returns the tree with them written.  `infer_expr` and
`check_expr` call each other down the tree and, where a literal is promoted, once
more on a tree that has been visited already.  `Visitor(env)` is the recursion
through both: a function from trees to what is made of them under each expected
type.  The functions they call take it as `visit`, as the code's functions take
the object.  What a tree is lowered to is a set of outcomes, `emit[tree]`.
IRBuilder folds an operation on two constants, so a value carries whether it is
one.  Two constants of different types go to LLVM's folder, which only asserts
their types: the process stops, or there is a constant of either operand's type
and no instruction the verifier could refuse.  `MaxHeight` bounds the trees; a theorem for every `MaxHeight` is one
for every tree.

**Basic blocks.**  Of a block `Codegen` keeps its function, whether its last
instruction is a terminator (what `getTerminator()` tests), whether a terminator
is followed by an instruction, and its successors.  That is what the verifier
reads, with the dominance of allocas over loads and stores, computed here from
the definition (no path from the entry avoids the alloca's block), and the
missing argument of a call of `printf`.  `calls` keeps which function each call
reaches: LLVM renames the second function of a name, and calls by name go to the
first.

**`Frontend`** instantiates `TypeCheck` and `Codegen`.  The tree, as the sequence
of its statements and block ends, grows while the checker walks it and is read
again by the generator.  A rejected tree is not generated (the exception leaves
`compile()`).

**`Driver`.**  A compilation is a process of its own with its `clang`; all share
`output.o` and `output`.  A program is known by the first pass that objects to it
(`flaw`), which stands for what the other modules say of that pass.  A file's
content is the set of programs whose bytes are in it, with `torn` if a part of
one is missing: opening a file for writing empties it, two processes that write
it at once leave bytes of both, and a kill tears it.  `read_entire_file` hands an
error to `compile()`, which prints it and dereferences the empty
`std::expected`: the process dies or goes on with any text.  `failed`, `touched`
and `ruined` are histories: what went wrong outside the program, who changed the
two files, and whose file another process changed before it was used.

## 3. What TLC checks

Passing runs:

| Run | Question | Instance |
|---|---|---|
| `lexer` | is no character lost (`TextCovered`), is each token the longest of its kind (`TokensExact`), has each error a reason (`ErrorsJustified`), are words found exactly if the tables have them (`FindExact`), are locations right (`LocationsExact`), does lexing end | all 16,105 texts of up to 4 characters over 11 classes; 3 keywords, 5 symbols; 118,436 states |
| `parser` | do expressions group by the operators' levels (`ExpressionsExact`), do ends close what they close in the text (`NestingExact`), is a token refused exactly where it cannot stand (`StatementsJudged`), is `EndOfFile` never consumed, does parsing end | all streams of up to 12 tokens over the block words, of up to 12 over the expression words, of up to 9 over all types of tokens; 1.36 million states |
| `type_check` | do scopes follow blocks (`ScopesMatchBlocks`), is there no shadowing (`LiveMeansVisible`), are jumps guarded exactly (`JumpGuardExact`), does the stack implement `LexicalScope` (`ImplementsLexicalScope`) | 2 variables, 2 function names, 3 functions, blocks 3 deep, 7 expressions with literals below and above Int8 |
| `expressions` | is inference exact, complete, consistent, are integers lowered to their type, and when does a stored or returned value not fit its place (`StoredValueExact`, `ReturnExact`) | all trees of up to 3 leaves over 12 leaves and the balanced ones of 4 over 3, `+ == !=`, 8 contexts; 112,261 states |
| `codegen` | is the loop stack exact, is the verdict decided by the source's shape | 6 basic blocks, 2 functions, 4 deep, calls of `printf`; 1.5 million states |
| `frontend` | does the generator find the variables, functions and loops the checker accepted (`LookupsSucceed`), do calls reach functions finished before (`CallsGoBack`), do allocas dominate uses (only here: `codegen` has no variables), does the verdict depend on shape only | trees of up to 8 nodes, 1 variable, 2 functions of one name that may call it; 659,622 states |
| `driver` | is silence success (`SilentMeansBuilt`), does a refused program leave no trace, are leftovers harmless, does every compilation end | 2 compilations at once, 4 kinds of program each, every call failing or not, a kill at any point, any files left from before; 866,340 states |

Why the bounds are enough. Four characters hold a number with its point and the
look-ahead behind it, a keyword that begins another, a pair of symbols with
neighbours, a string with a character in it, and a token on a second line.
Twelve tokens, of which four are a function's head, hold an `elseif` chain with
an `else`, a `break` or the ends of the blocks around it, or an expression of
four operands, or of three with parentheses; nine over all types hold each
statement with its parts. Three functions are one more than the first that pops
an empty stack. Three nested blocks hold a loop in a branch of an `if` in a
function, and an `elseif` chain has any length at one depth, as `ElseIf`
replaces the block. Two variables make one visible and one not, in the same or
different blocks. Three leaves are the first size at which a literal is promoted
inside a subtree that is then promoted or checked again; four hold the least
arithmetic on two comparisons. Six basic blocks hold
an `if` with an `elseif`, an `if` with an `else` in a loop, or a loop in a loop.
Eight nodes hold two sibling blocks with a declaration and a use. Two
compilations are what a race needs, and one that died before the other started
is also an earlier one.

`ScopesMatchBlocks` says what the code does: after the first function the stack
has one scope less than it should, after each later one the vector was popped
once more when empty.  That this should not be so is the violated
`SampleProgramChecks`.

`ImplementsLexicalScope` maps a slot of the stack to the block as far from the
top, and claims this until an empty stack has been popped (`Intact`): from then
on the abstract state has no block open.  The abstract state names the open
blocks by their kind, so a step from one branch to the next is no stutter and has
to forget the branch's names; only an `elseif` whose branch is of the same kind
as the one before it could be taken for one.

`NestingExact` is an equivalence: ends close what they close in the text as long
as no `end` stands directly behind the `end` of an `if` with an `elseif`, and no
longer.  `VerdictExact` names, of the source, all that the verifier refuses: a
statement behind a jump or return, a loop body that ends in one, a function that
does not end in a `return` (as in `examples/explicit.b:2-5`), a call of `printf`.
`StoredValueExact` names the three ways a variable gets a value of another width:
float literals are doubles whatever type was resolved, comparisons are accepted
at any annotation, and constants of different types are folded rather than
refused.  It speaks of the `Operands` of the arithmetic on top: `(b==b)+(b==b)` is
stored in an `Int64` as an i1, being built from comparisons only;
`(1==1)+5` may be stored there as an i1 or an i64, its operands being constants of
either type.  An operand that is not a constant decides: all of them fill the
variable or none does, and beside one of another type the instruction is
invalid.  `ReturnExact`: the returned value's type is compared
with nothing, while all functions are created as i32.  `TextCovered` includes the
stream that ends early, without an error, at the first character no rule knows.
`SilentMeansBuilt` makes an exception for a compilation whose file another one
changed in time, since the two names are fixed, and claims nothing of the exit
status, which is 0 in any case.

Violations, each a statement of the documentation, a comment or a test that
the code does not keep (quoted in `PROJECT.json`, "findings"):

| Run | What TLC finds |
|---|---|
| `two_functions` | two empty functions pop an empty vector |
| `loop_depth` | `loop_depth` starts indeterminate in `compile()`: `break` without a loop is accepted |
| `accepted_lowers` | `x: Float32 = 1` is accepted and throws in codegen |
| `sibling_scopes` | one name in two sibling blocks throws in codegen |
| `elseif_end` | an `elseif` chain as a loop's last statement takes the loop's `end` |

Every property of a passing run has a mutant: a plausible bug of one definition,
under which TLC finds that property violated.

**Fairness.**  `Lexer` and `Parser` state weak fairness of their steps: one thread
runs `compile()` with nothing to wait for, so a step that is possible is taken.
Their loops are the ones that might not end; checker and generator are plain
recursion over a finite tree, so `Frontend` states no fairness, and a walk of the
model stuck halfway would be a deadlock.  `Driver` states it for
each compilation and for its `clang`: the operating system schedules every
process, and `clang` comes to an end with its one object file.  Nobody has to be
killed.  The other modules state none.  `CHECK_DEADLOCK` is on everywhere; what
has finished stutters by an explicit action.

## 4. What TLAPS proves

For every value of the constants that the named assumptions admit, with all
bounds arbitrary:

| Theorem | States | Inductive invariant |
|---|---|---|
| `TypeCheckProofs!TypeCorrect`, `ScopesMatch`, `NoShadowing`, `JumpGuard` | `TypeOK`, `ScopesMatchBlocks`, `LiveMeansVisible`, `JumpGuardExact` | `IInv` |
| `TypeCheckProofs!ScopesImplementLexical` | `ImplementsLexicalScope` | `RInv` |
| `LexerProofs!FindIsExact` | `FindExact` | `MapInv` |
| `LexerProofs!TypeCorrect`, `NothingLost`, `WordsLookedUp` | `TypeOK`, `TextCovered`, `FindExact` | `IInv` |
| `LexerProofs!TokensAreExact`, `LocationsAreExact`, `ErrorsAreJustified` | `TokensExact`, `LocationsExact`, `ErrorsJustified` | `XInv` |
| `ParserProofs!StopsAtEnd` | `NeverPastEnd` | `PInv` |
| `ParserProofs!ExpressionsAreExact`, `TypeCorrect` | `ExpressionsExact`, `TypeOK` | `XInv`, `TInv` |
| `ParserProofs!NestingIsExact`, `StatementsAreJudged` | `NestingExact`, `StatementsJudged` | `NInv` |
| `ExpressionsProofs!InferenceIsExact`, `CheckingIsExact` | `InferExact`, `CheckExact` | `EInv` |
| `ExpressionsProofs!InferredTreesAreConsistent`, `LiteralTypesAreGone` | `InferredTreeConsistent`, `NoLiteralTypeSurvives` | `EInv` |
| `ExpressionsProofs!IntegersAreLowered`, `StoredValuesAreExact`, `ReturnsAreExact`, `ExpressionsTypeOK` | `IntegersLower`, `StoredValueExact`, `ReturnExact`, `TypeOK` | `EInv` |
| `CodegenProofs!TypeCorrect`, `LoopStackIsExact` | `TypeOK`, `LoopStackExact` | `CInv` |
| `CodegenProofs!VerdictIsExact` | `VerdictExact` | `VInv` |
| `FrontendProofs!LookupsOfAccepted`, `CallsReachBack`, `AllocasDominateUses`, `VerdictFollowsShape` | `LookupsSucceed`, `CallsGoBack`, `AllocaDominatesUse`, `VerdictByShape` | `FInv` |
| `DriverProofs!TypeCorrect`, `NoTrace`, `LeftoversDoNotMatter`, `SilenceIsSuccess` | `TypeOK`, `RejectedLeavesNoTrace`, `LeftoversHarmless`, `SilentMeansBuilt` | `IInv` |

**Type checker.**  Assumes `InferTopAssumption` (`infer_expr_top_level` returns
concrete types: "Always resolves to non-literal concrete type",
`type_check_visitor.h:113`), which TLC evaluates for the expressions of
`MCTypeCheck`; `ExpressionsTypeOK` proves it for trees of any height and any types
of the variables (`Env` is a constant).  `JumpGuard` also takes
`loop_depth` to start at 0.  `IInv` adds: a function is the outermost block and
only that (`WalkShape`; the end of a function then empties the walk), no name has
two hits among the slots `find` searches (`UnshadowedIn`; a declaration is
refused only because `find` returned nothing, so "nothing found" has to mean
"declared nowhere"), and the counter equals the number of loops on the walk
(`LoopCount`; `MaxDepth < LoopMod` keeps the unsigned counter from wrapping).

The refinement of `LexicalScope` needs one fact more: until the first function is
done the constructor's scope is empty (`BaseEmpty`), or what it held would stay
visible in every block.  `Slot` is the one slot in which `find` sees a name; a
lemma for each of push, pop and set says how slots and visible types change, and
each step of `TypeCheck` is then one step of `LexicalScope` on the same walk, or
a stutter.

**Static map.**  `MapInv`: all entries before `first` are less than the key, all
from `first + count` on are not.  The array's order (`Constructed`) then makes
the entry at `first` the only candidate.

**Lexer.**  Assumes that the two tables differ and are sorted without a key twice
(`TablesAssumption`: else the constructor throws at compile time), that they name
no type of token the rules make by themselves (`ValuesAssumption`), and that
words have ranks.  `Covered` says the covering of the text while the stream is
still growing, up to where the active rule's token began; `AtParenthesis`, that
the rule which takes its character without a test is only entered at a
parenthesis, so it cannot run over the end.  `XInv` adds what the active rule
knows of the characters from `start` to `index` (`Shape`): all digits, one point
in its place, a run of symbols, no quote since the first.  When a rule returns,
`Shape` and the character it looked at are the definition of the token
(`IsToken`); a look-up that failed, with `FindExact`, is the reason of the error.
`Placed` says of both locations what `LocationsExact` says of a token's: the line
ends before the position, and the distance from the last of them.

**Parser.**  `PInv` says of every item of the call stack what it may hold; an
item that expects `EndOfFile` is not among them, and `EndOfFile` has no level as
an operator, so no step that advances is enabled at it.

`XInv` says where the parser can be (`Parsing`): between the parts of statements,
or in one of seven places inside an expression.  Each of the seven knows the
values it has read and what waits behind it (`Waiting`): the statement; an
operator whose left side is read, with what waits for the whole; an open
parenthesis, with what waits for it.  This chain has any length, and it is not
defined by recursion: `Waiting` is a set of links closed under "each link is of
one of the three kinds and its rest is a link", so a step takes one link off or
puts one on.  Of every part that has been read, `Expr` says that its parentheses
match, that its tree is that of `Grouping`, and how loose its operators are at
most; `ExprBinary` joins two such parts at an operator that binds less than all to
the right of it and no more than all to the left, which is where `Grouping` splits
the whole.  `Grouping` is a recursive function on spans of tokens; that it is one
(`TreeNode`) and that a tree does not change when tokens are added behind it
(`TreeSame`) is proved by induction on the length of the span.  `TInv` adds the
record of the ends.

**Nesting.**  `NestingExact` compares the record of the ends with the text
alone, so it is not inductive: an `end` is recorded for the item that consumes it,
and nothing in the property says which items wait.  `NInv` adds that as long as no
`end` has been taken (`Taken = {}`) the items `iftail`, `endif` and `end` of
`todo` are the unclosed openers of the text.  They are of its kind (`Kind`) and
stand innermost first (`Nested`); something waits for every opener (`Held`); an
elseif has left a second `endif` and an else has used the `iftail` up
(`Branched`), so the items tell which branches an if has had.  The second `endif`
of a closed chain is the only item that waits for nothing (`Spent`): it is next,
and the `end` it may find is the one that makes `Taken` nonempty.  When `endif` is
next for an open if, `end` is next in the text (`Ahead`).  The word that a
structural item is about to consume counts as read (`Told`), or the openers and
the items would differ between a construct's first two steps.  `Joint` says what
may stand behind what in `todo`, which makes `until` of a block agree with what
waits behind it: this is `StatementsJudged`, as the parser throws where the token
is neither in `until` nor a statement.  The other half is about texts: a token
that is appended changes depth and innermost opener only in four ways (`Quiet`, an
opener, a branch, an `end`), each a lemma.  Once an `end` has been taken, no later
token takes that back (`TakenNext`), and the record stays wrong.  TLC finds
`NInv` to hold in all 1.4 million states of the instance `MCParser`.

**Expressions.**  Assumes that the trees are of the set `AllTrees`, that a variable
has a type a program can name or is not declared, and that annotations are such
types (`TreesAssumption`, `EnvAssumption`, `AnnotationsAssumption`).  A statement
types and lowers its expression in two steps, so `EInv` only says that what has
been reached is what typing the tree and then lowering it return; the work is in
lemmas about trees.

They rest on induction over the height, and first on the recursive functions being
what their definitions say.  `TreeRecursion` is this for what recurs to the two
sides (`NodesOf`, `Operands`, `emit`).  `Visitor` is harder: a visit of a node goes
on to trees the visits of its sides have returned, not to subtrees.  Those trees are
no higher than the sides (`VisitedType`), and two visitors that agree on trees up
to a height agree on a node one higher (`VisitedAgrees`), which makes the function
exist and `VisitorIs` hold.  `VisitKeeps` says what a visit never changes: leaves but for
their annotation, and operators.

For trees without comparisons, `CheckArithmetic` turns an annotation pushed down
into a statement about all leaves.  `InferSettles` is the strengthening that makes
the consistency of inferred trees inductive: a tree inferred to have a literal type
has nothing but literals and arithmetic in it, and a second visit accepts it with the
types they fit (`CheckAgain`); a tree inferred to have another type already carries it at every
node.  `InferArithmetic` says that the type inferred for a subtree is the one its
leaves ask for (`Unified`): a literal type if it has only literals, and else the
only type its other leaves have.  With the promotion of two such types
(`Promotes`), the order of the operands does not matter.

Lowering: in a checked tree the operands that are not comparisons have the expected
type (`CheckLeaves`), and a value that is built has the type of each of its `Operands` that is not a
constant, has that of one of them in any case, and is a constant when all of them
are (`OperandEmits`).  Whether such an operand fills the variable is for the
expected type and the operand's kind to say (`OperandFills`), and so for the kinds
the tree had before the visit, which keeps them (`FillsByKind`).
`EmitInteger` follows integer trees, where nothing can fail.

**Code generator.**  Assumes that expressions load declared names only
(`ExprsAssumption`).  `CInv` says that branches stay within the module's blocks,
that each frame knows blocks that exist and that a function's frame is the
outermost and only that, and that the loop stack lists the blocks of the loop
frames in order (`Matches`, counting frames up to each loop).  There is a lemma
for each way frames and loop stack change together (marked, pushed, popped, with
a loop or without); `EndFunction`, which touches the frames but not the loop
stack, needs the shape of the frames to know that no loop is open.

`VInv` keeps the books of the verdict (`Books`): the blocks that may still lack a
terminator are the current one and those the frames will continue at, no frame
waits for another's block (`Awaited`), and every other block has its terminator
or `noReturn` is among the faults; an instruction behind a terminator is there
exactly if the history has a statement behind a jump or a loop that ends in one
(`Ledger`).  Dominance is defined by paths, so nothing is said of it here: the
verdict leaves it open as a disjunct, which `FrontendProofs` closes.

**Both passes.**  Assumes of an expression what `ExpressionsTypeOK` proves of
`infer_expr_top_level`, and that an accepted one uses visible names and known
functions only (`ExprsAssumption`; TLC evaluates it for those of `MCFrontend`),
and the bounds' types (`BoundsAssumption`).  `LookupsOfAccepted` also takes
`loop_depth` to start at 0.  `FInv` is the two modules' invariants with `TraceInv`
and `GenInv`.  `TraceInv`: the checker, which is at the end of the tree, has left a
trace, one of its views (open blocks, names they declare, functions known) before
each node, and each node takes one view to the next.  `GenInv`: the generator,
which starts over, follows that trace.  Its frames are the view's blocks, its map
holds the view's names in blocks of the same function, and the functions the
view knows are in its module and complete.  What the checker looked up there is
then found.  For dominance each basic block has a region (`RegionsOf`): blocks, it
among them, that no branch enters but at it.  An alloca's uses are built in its
block's region (`UsesIn`), and a path from the entry to a block in a region passes
through its head, so no path avoids the alloca.

**Driver.**  `IInv` follows one compilation: past which pass its program must be
good (`Passed`), who can have touched a file (`Traced`), that an undisturbed one
finds its own bytes in `output.o`, in what its linker read and in `output`
(`Undisturbed`), its `.ll` file (`Logged`), and why it printed (`Blamed`).
`Locality` says that a step changes only its own process' state, so each
conjunct is proved for the acting process and carried over for the others.

Only model-checked: liveness (`LexingEnds`, `ParsingEnds`,
`CompilationsEnd`), which is out of the provers' reach.  Every other property of a
passing run is a theorem.

## 5. What is not modelled

- **The AST printer.**  Its text is for `--output-ast` only: one bracket and one
  indentation per node, closed by a destructor.  Nothing reads it but a person,
  and an `elseif` is printed as the `else` and `if` it is parsed to.
- **`type_checking.cxx`**: not built and not included anywhere.
- LLVM beyond what the verifier reads: optimisation, emission and the run time
  behaviour of compiled programs (wrapping, division by zero, stack use of
  allocas in loops).
- Text: messages, the locations in them (a token's own location is modelled, not
  a node's), names given to LLVM values.
- The value of a number: `Parser` keeps that the conversion of a literal may
  throw, `Types` what happens to values within its range.  That Boost reads a
  leading 0 as octal and wraps above 2^127 is listed as a hazard.
- The type mismatches that `Expressions` finds are not repeated in `Codegen`: its
  verdict is that of control flow, dominance and calls.
- The passes within `Driver` are one step each: nothing they do is visible
  outside the process.

## 6. Plan

Left, in this order:

1. the type mismatches of `Expressions` in the verdict of `Codegen`, so that
   `Frontend` covers everything the verifier refuses;
2. the locations of nodes, which the parser takes from the token behind a variable
   or a call.
