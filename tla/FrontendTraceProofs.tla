------------------------- MODULE FrontendTraceProofs -------------------------
(***************************************************************************)
(* What the proofs of FrontendProofs rest on, one pass at a time.  The     *)
(* checker: its visits leave a trace, its views of the walk, one before    *)
(* each node of the tree it accepts.  The generator: each basic block has  *)
(* a region, blocks that are entered only through it, which grows as       *)
(* blocks and branches are added to the module.                            *)
(***************************************************************************)
EXTENDS Frontend, FiniteSetTheorems, SequenceTheorems, TLAPS

TCP == INSTANCE TypeCheckProofs WITH status <- tc
CGP == INSTANCE CodegenProofs WITH status <- cg, MaxBlocks <- 3 * MaxTree,
                                   MaxDepth <- 2 * MaxTree

(***************************************************************************)
(* The passes' own invariants.                                             *)
(***************************************************************************)
LEMMA CheckerAssumptions ==
    /\ MaxFns \in Nat
    /\ MaxDepth \in Nat
    /\ LoopMod \in Nat /\ MaxDepth < LoopMod
    /\ InitialLoopDepths \subseteq 0 .. (LoopMod - 1)
    /\ Annotations \subseteq TCP!BuiltinTypes
    /\ TCP!NoFunction \notin FnNames
    /\ \A e \in Exprs, v \in TCP!ScopeMaps, f \in SUBSET FnNames :
           LET r == InferTop(e, v, f)
           IN  r.ok \in BOOLEAN /\ (r.ok => r.type \in TCP!BuiltinTypes)
BY BoundsAssumption, ExprsAssumption
   DEF TC!BuiltinTypes, TC!IntTypes, TC!SignedTypes, TC!UnsignedTypes, TC!FloatTypes,
       TC!NoFunction, TC!ScopeMaps, TC!Sentinel,
       TCP!BuiltinTypes, TCP!IntTypes, TCP!SignedTypes, TCP!UnsignedTypes, TCP!FloatTypes,
       TCP!NoFunction, TCP!ScopeMaps, TCP!Sentinel

LEMMA CheckerStart == TC!Init => TCP!RInv
<1>1. TC!Init => TCP!Init
  BY DEF TC!Init, TCP!Init, TC!EmptyScope, TCP!EmptyScope, TC!NoFunction, TCP!NoFunction,
         TC!Sentinel, TCP!Sentinel
<1>2. TCP!Init => TCP!IInv
  BY CheckerAssumptions, TCP!InitIInv
<1>3. TCP!Init => TCP!BaseEmpty
  BY DEF TCP!Init, TCP!BaseEmpty, TCP!EmptyScope
<1>4. QED
  BY <1>1, <1>2, <1>3 DEF TCP!RInv

LEMMA GeneratorAssumption == \A e \in Exprs : VarsOf(e) \subseteq Names
BY ExprsAssumption

LEMMA GeneratorStart == CG!CInit => CGP!VInv
<1>1. CG!CInit => CGP!CInit
  BY DEF CG!CInit, CGP!CInit
<1>2. QED
  BY <1>1, GeneratorAssumption, CGP!InitVInv

\* An instance's action is the same whichever name it has.
LEMMA SameChecker ==
    ASSUME NEW f, NEW n, NEW a, NEW e, NEW kind
    PROVE  /\ TC!EnterFunction(f) => TCP!EnterFunction(f)
           /\ TC!LeaveFunction => TCP!LeaveFunction
           /\ TC!MemoryFault => TCP!MemoryFault
           /\ TC!Declare(n, a, e) => TCP!Declare(n, a, e)
           /\ TC!Assign(n, e) => TCP!Assign(n, e)
           /\ TC!Show(e) => TCP!Show(e)
           /\ TC!Return(e) => TCP!Return(e)
           /\ TC!EnterIf(e, kind) => TCP!EnterIf(e, kind)
           /\ TC!LeaveIf => TCP!LeaveIf
           /\ TC!EnterElse => TCP!EnterElse
           /\ TC!ElseIf(e, kind) => TCP!ElseIf(e, kind)
           /\ TC!EnterLoop => TCP!EnterLoop
           /\ TC!LeaveLoop => TCP!LeaveLoop
           /\ TC!Jump => TCP!Jump
           /\ TC!Finish => TCP!Finish
BY DEF TC!NoAnnotation, TCP!NoAnnotation, TC!EmptyScope, TCP!EmptyScope, TC!ThenBlocks,
       TCP!ThenBlocks, TC!Blocks, TCP!Blocks, TC!NoFunction, TCP!NoFunction, TC!ScopeMaps,
       TCP!ScopeMaps, TC!Slots, TCP!Slots, TC!Hits, TCP!Hits, TC!Outermost, TCP!Outermost,
       TC!find, TCP!find, TC!Visible, TCP!Visible, TC!Push, TCP!Push, TC!Pop, TCP!Pop, TC!Top,
       TCP!Top, TC!Unwound, TCP!Unwound, TC!store, TCP!store, TC!InBlock, TCP!InBlock, TC!At,
       TCP!At, TC!MayNest, TCP!MayNest, TC!Accepts, TCP!Accepts, TC!Init, TCP!Init,
       TC!EnterFunction, TCP!EnterFunction, TC!LeaveFunction, TCP!LeaveFunction,
       TC!MemoryFault, TCP!MemoryFault, TC!Declare, TCP!Declare, TC!Assign, TCP!Assign,
       TC!Show, TCP!Show, TC!Return, TCP!Return, TC!Condition, TCP!Condition, TC!EnterIf,
       TCP!EnterIf, TC!LeaveIf, TCP!LeaveIf, TC!EnterElse, TCP!EnterElse, TC!ElseIf,
       TCP!ElseIf, TC!EnterLoop, TCP!EnterLoop, TC!LeaveLoop, TCP!LeaveLoop, TC!Jump,
       TCP!Jump, TC!Finish, TCP!Finish, TC!Sentinel, TCP!Sentinel, TC!BuiltinTypes,
       TCP!BuiltinTypes, TC!IntTypes, TCP!IntTypes, TC!SignedTypes, TCP!SignedTypes,
       TC!UnsignedTypes, TCP!UnsignedTypes, TC!FloatTypes, TCP!FloatTypes

LEMMA SameKinds == TC!ThenBlocks = TCP!ThenBlocks /\ TC!NoAnnotation = TCP!NoAnnotation
BY DEF TC!ThenBlocks, TCP!ThenBlocks, TC!NoAnnotation, TCP!NoAnnotation

LEMMA CheckerStep ==
    ASSUME TCP!RInv, [Next]_fvars
    PROVE  TCP!RInv'
<1>1. [TCP!Next]_(TCP!vars)
  <2>1. CASE CheckStatement
    BY <2>1, SameChecker, SameKinds DEF CheckStatement, TCP!Next, TCP!Statement
  <2>2. CASE CheckBranch
    BY <2>2, SameChecker, SameKinds DEF CheckBranch, TCP!Next, TCP!Branch
  <2>3. CASE CheckLoop
    BY <2>3, SameChecker DEF CheckLoop, TCP!Next
  <2>4. CASE CheckFunction
    BY <2>4, SameChecker DEF CheckFunction, TCP!Next
  <2>5. CASE CheckEnds
    BY <2>5, SameChecker DEF CheckEnds, TCP!Next
  <2>6. CASE Generate \/ Compile \/ Stopped \/ UNCHANGED fvars
    BY <2>6 DEF Generate, Compile, Next1, Stopped, fvars, tcVars, TCP!vars
  <2>7. QED
    BY <2>1, <2>2, <2>3, <2>4, <2>5, <2>6 DEF Next
<1>2. TCP!IInv /\ TCP!BaseEmpty
  BY DEF TCP!RInv
<1>3. TCP!IInv'
  BY <1>1, <1>2, CheckerAssumptions, TCP!StepIInv
<1>4. TCP!BaseEmpty'
  BY <1>1, <1>2, CheckerAssumptions, TCP!BaseStep
<1>5. QED
  BY <1>3, <1>4 DEF TCP!RInv

LEMMA SameGenerator ==
    ASSUME NEW f, NEW n, NEW e, NEW kind
    PROVE  /\ CG!BuildFunction(f) => CGP!BuildFunction(f)
           /\ CG!EndFunction => CGP!EndFunction
           /\ CG!BuildDeclare(n, e) => CGP!BuildDeclare(n, e)
           /\ CG!BuildAssign(n, e) => CGP!BuildAssign(n, e)
           /\ CG!BuildShow(e) => CGP!BuildShow(e)
           /\ CG!BuildReturn(e) => CGP!BuildReturn(e)
           /\ CG!BuildIf(e, kind) => CGP!BuildIf(e, kind)
           /\ CG!EndIf => CGP!EndIf
           /\ CG!BuildElse => CGP!BuildElse
           /\ CG!BuildElseIf(e, kind) => CGP!BuildElseIf(e, kind)
           /\ CG!BuildLoop => CGP!BuildLoop
           /\ CG!EndLoop => CGP!EndLoop
           /\ CG!BuildBreak => CGP!BuildBreak
           /\ CG!BuildCycle => CGP!BuildCycle
           /\ CG!EndProgram => CGP!EndProgram
           /\ CG!Verify => CGP!Verify
BY DEF CG!ThenBlocks, CGP!ThenBlocks, CG!Kinds, CGP!Kinds, CG!Jumps, CGP!Jumps,
       CG!Lasts, CGP!Lasts, CG!Faults, CGP!Faults, CG!NewBlock, CGP!NewBlock,
       CG!Insert, CGP!Insert, CG!Instruction, CGP!Instruction,
       CG!CreateBr, CGP!CreateBr, CG!CreateRet, CGP!CreateRet,
       CG!BrUnlessTerminated, CGP!BrUnlessTerminated, CG!Frame, CGP!Frame,
       CG!Top, CGP!Top, CG!Unwound, CGP!Unwound, CG!InBlock, CGP!InBlock,
       CG!At, CGP!At, CG!Room, CGP!Room, CG!Marked, CGP!Marked,
       CG!AfterJump, CGP!AfterJump, CG!Emits, CGP!Emits, CG!Loads, CGP!Loads,
       CG!Evaluate, CGP!Evaluate, CG!CallFaults, CGP!CallFaults, CG!Throw, CGP!Throw,
       CG!BuildFunction, CGP!BuildFunction, CG!EndFunction, CGP!EndFunction,
       CG!BuildDeclare, CGP!BuildDeclare, CG!BuildAssign, CGP!BuildAssign,
       CG!BuildShow, CGP!BuildShow, CG!BuildReturn, CGP!BuildReturn,
       CG!Size, CGP!Size, CG!OpenIf, CGP!OpenIf, CG!BuildIf, CGP!BuildIf,
       CG!EndBranch, CGP!EndBranch, CG!EndIf, CGP!EndIf, CG!BuildElse, CGP!BuildElse,
       CG!BuildElseIf, CGP!BuildElseIf, CG!BuildLoop, CGP!BuildLoop,
       CG!EndLoop, CGP!EndLoop, CG!JumpTo, CGP!JumpTo, CG!BuildBreak, CGP!BuildBreak,
       CG!BuildCycle, CGP!BuildCycle, CG!EndProgram, CGP!EndProgram,
       CG!Verify, CGP!Verify, CG!cvars, CGP!cvars, CG!Step, CGP!Step,
       CG!Reached, CGP!Reached, CG!Entry, CGP!Entry, CG!Dominates, CGP!Dominates,
       CG!WellFormed, CGP!WellFormed, CG!UsesDominated, CGP!UsesDominated,
       CG!CallsComplete, CGP!CallsComplete

\* What a tree is made of.
Nodes ==
    [op : {"declare", "assign"}, n : Names, e : Exprs]
      \cup [op : {"show", "return"}, e : Exprs]
      \cup [op : {"if", "elseif"}, e : Exprs, kind : TC!ThenBlocks]
      \cup [op : {"fn"}, f : FnNames]
      \cup [op : {"endfn", "break", "cycle", "else", "endif", "loop", "endloop"}]

LEMMA NodeFields ==
    ASSUME NEW n \in Nodes
    PROVE  /\ n.op \in {"declare", "assign", "show", "return", "if", "elseif", "fn", "endfn",
                       "break", "cycle", "else", "endif", "loop", "endloop"}
           /\ n.op \in {"declare", "assign"} => n.n \in Names
           /\ n.op \in {"declare", "assign", "show", "return", "if", "elseif"} => n.e \in Exprs
           /\ n.op \in {"if", "elseif"} => n.kind \in TC!ThenBlocks
           /\ n.op = "fn" => n.f \in FnNames
BY DEF Nodes

LEMMA Built ==
    ASSUME NEW n \in Nodes, Build(n)
    PROVE  /\ n.op = "fn"      => CG!BuildFunction(n.f)
           /\ n.op = "endfn"   => CG!EndFunction
           /\ n.op = "declare" => CG!BuildDeclare(n.n, n.e)
           /\ n.op = "assign"  => CG!BuildAssign(n.n, n.e)
           /\ n.op = "show"    => CG!BuildShow(n.e)
           /\ n.op = "return"  => CG!BuildReturn(n.e)
           /\ n.op = "break"   => CG!BuildBreak
           /\ n.op = "cycle"   => CG!BuildCycle
           /\ n.op = "if"      => CG!BuildIf(n.e, n.kind)
           /\ n.op = "elseif"  => CG!BuildElseIf(n.e, n.kind)
           /\ n.op = "else"    => CG!BuildElse
           /\ n.op = "endif"   => CG!EndIf
           /\ n.op = "loop"    => CG!BuildLoop
           /\ n.op = "endloop" => CG!EndLoop
BY DEF Build

LEMMA BuildStep ==
    ASSUME NEW n \in Nodes, Build(n)
    PROVE  CGP!CNext
<1>1. CASE n.op \in {"declare", "assign", "show", "return", "break", "cycle"}
  BY <1>1, Built, NodeFields, SameGenerator DEF CGP!CNext, CGP!BuildStatement
<1>2. CASE n.op \in {"if", "elseif", "else", "endif"}
  BY <1>2, Built, NodeFields, SameGenerator
     DEF CGP!CNext, CGP!BuildBranch, TC!ThenBlocks, CGP!ThenBlocks
<1>3. CASE n.op \in {"fn", "endfn", "loop", "endloop"}
  BY <1>3, Built, NodeFields, SameGenerator DEF CGP!CNext
<1>4. QED
  BY <1>1, <1>2, <1>3, NodeFields

TreeOK == tree \in Seq(Nodes) /\ pos \in 1 .. Len(tree) + 1

LEMMA GeneratorStep ==
    ASSUME CGP!VInv, TreeOK, [Next]_fvars
    PROVE  CGP!VInv'
<1>1. [CGP!CNext]_(CGP!cvars)
  <2>1. CASE Generate
    <3>1. CASE CG!EndIf
      BY <3>1, SameGenerator DEF CGP!CNext, CGP!BuildBranch
    <3>2. CASE pos <= Len(tree) /\ Build(Node)
      <4>1. Node \in Nodes
        BY <3>2 DEF TreeOK, Node
      <4>2. QED
        BY <3>2, <4>1, BuildStep
    <3>3. QED
      BY <2>1, <3>1, <3>2 DEF Generate
  <2>2. CASE Compile
    BY <2>2, SameGenerator DEF Compile, CGP!CNext
  <2>3. CASE CheckStatement \/ CheckBranch \/ CheckLoop \/ CheckFunction \/ CheckEnds
    BY <2>3 DEF CheckStatement, CheckBranch, CheckLoop, CheckFunction, CheckEnds, Visit,
                cgVars, CGP!cvars
  <2>4. CASE Stopped \/ UNCHANGED fvars
    BY <2>4 DEF Stopped, fvars, cgVars, CGP!cvars
  <2>5. QED
    BY <2>1, <2>2, <2>3, <2>4 DEF Next
<1>2. QED
  BY <1>1, GeneratorAssumption, CGP!NextVInv

(***************************************************************************)
(* What the checker knows at a place of the tree: the open blocks, the     *)
(* names declared in each, by its level, and the complete functions.       *)
(***************************************************************************)
DeclaredIn(s, w) ==
    {d \in (1 .. Len(w)) \X Names : s[Len(s) - Len(w) + d[1]][d[2]] # TC!Sentinel}

View(w, d, k, c, n) == [walk |-> w, decl |-> d, known |-> k, caller |-> c, fns |-> n]

Here  == View(walk, DeclaredIn(scopes, walk), function_map, current, fns)
Begin == View(<< >>, {}, {}, TC!NoFunction, 0)

Views == [walk : Seq(TC!Blocks), decl : SUBSET (Nat \X Names), known : SUBSET FnNames,
          caller : FnNames \cup {TC!NoFunction}, fns : Nat]

InWalk(p) == p \in Views /\ \A d \in p.decl : d[1] \in 1 .. Len(p.walk)

Readable(decl, p, e) ==
    /\ \A n \in VarsOf(e) : \E l \in Nat : <<l, n>> \in decl
    /\ CallsOf(e) \subseteq p.known

Popped(w)       == SubSeq(w, 1, Len(w) - 1)
Outer(p)        == {d \in p.decl : d[1] < Len(p.walk)}
Open(p, k)      == View(Append(p.walk, k), p.decl, p.known, p.caller, p.fns)
Close(p)        == View(Popped(p.walk), Outer(p), p.known, p.caller, p.fns)
Reopen(p, k)    == View(Append(Popped(p.walk), k), Outer(p), p.known, p.caller, p.fns)
Declared(p, n)  == View(p.walk, p.decl \cup {<<Len(p.walk), n>>}, p.known, p.caller, p.fns)
BeginFn(p, f)   == View(<<"fn">>, {}, p.known, f, p.fns)
EndFn(p)        == View(<< >>, {}, p.known \cup {p.caller}, TC!NoFunction, p.fns + 1)

\* What the checker's visit of a node it accepts makes of its view p, when its
\* loop counter began at z.
Visited(z, p, n, q) ==
    \/ /\ n.op = "fn"
       /\ p.walk = << >> /\ q = BeginFn(p, n.f)
    \/ /\ n.op = "endfn"
       /\ p.walk # << >> /\ p.caller \in FnNames /\ q = EndFn(p)
    \/ /\ n.op = "declare"
       /\ p.walk # << >> /\ Readable(p.decl, p, n.e) /\ q = Declared(p, n.n)
    \/ /\ n.op = "assign"
       /\ \E l \in Nat : <<l, n.n>> \in p.decl
       /\ Readable(p.decl, p, n.e) /\ q = p
    \/ /\ n.op \in {"show", "return"}
       /\ Readable(p.decl, p, n.e) /\ q = p
    \/ /\ n.op \in {"break", "cycle"}
       /\ z = 0 => \E i \in 1 .. Len(p.walk) : p.walk[i] = "loop"
       /\ q = p
    \/ /\ n.op = "if"
       /\ p.walk # << >> /\ Readable(p.decl, p, n.e) /\ q = Open(p, n.kind)
    \/ /\ n.op = "elseif"
       /\ p.walk # << >> /\ Readable(Outer(p), p, n.e) /\ q = Reopen(p, n.kind)
    \/ n.op = "else" /\ p.walk # << >> /\ q = Reopen(p, "else")
    \/ n.op = "loop" /\ p.walk # << >> /\ q = Open(p, "loop")
    \/ n.op \in {"endif", "endloop"} /\ p.walk # << >> /\ q = Close(p)

\* S is what the checker knew before each node of t, and behind the last.
IsTrace(S, t, z) ==
    /\ S \in Seq(Views) /\ Len(S) = Len(t) + 1 /\ S[1] = Begin
    /\ \A i \in 1 .. Len(S) : InWalk(S[i])
    /\ \A i \in 1 .. Len(t) : Visited(z, S[i], t[i], S[i + 1])

(***************************************************************************)
(* Stacks of scopes.                                                       *)
(***************************************************************************)
LEMMA LastFacts ==
    ASSUME NEW X, NEW s \in Seq(X), s # << >>
    PROVE  /\ Popped(s) \in Seq(X)
           /\ Len(Popped(s)) = Len(s) - 1
           /\ \A i \in 1 .. Len(s) - 1 : Popped(s)[i] = s[i]
           /\ Len(s) \in Nat \ {0}
<1>1. PICK n \in Nat : n = Len(s) - 1
  OBVIOUS
<1>2. /\ SubSeq(s, 1, n) \in Seq(X)
      /\ Len(SubSeq(s, 1, n)) = n
      /\ \A i \in 1 .. n : SubSeq(s, 1, n)[i] = s[i]
  BY <1>1
<1>3. QED
  BY <1>1, <1>2 DEF Popped

LEMMA SameDeclared ==
    ASSUME NEW s, NEW w, NEW t, NEW v, NEW n \in Names, NEW i, NEW l,
           l \in 1 .. Len(w), l \in 1 .. Len(v),
           Len(s) - Len(w) + l = i, Len(t) - Len(v) + l = i, s[i] = t[i]
    PROVE  <<l, n>> \in DeclaredIn(s, w) <=> <<l, n>> \in DeclaredIn(t, v)
BY DEF DeclaredIn

\* What the checker's own invariant says of a visit that goes on.
LEMMA CheckerFacts ==
    ASSUME TCP!RInv
    PROVE  /\ scopes \in Seq(TC!ScopeMaps) /\ walk \in Seq(TC!Blocks)
           /\ deficit \in Nat /\ fns \in Nat /\ function_map \subseteq FnNames
           /\ current \in FnNames \cup {TC!NoFunction}
           /\ walk # << >> => current \in FnNames
           /\ Len(scopes) = Len(walk) + (IF fns = 0 THEN 1 ELSE 0)
           /\ fns = 0 => \A n \in Names : scopes[1][n] = TC!Sentinel
BY DEF TCP!RInv, TCP!IInv, TCP!BaseEmpty, TCP!TypeOK, TCP!StackInv, TCP!ScopesMatchBlocks,
       TCP!WalkShape, TCP!ScopeMaps, TCP!BuiltinTypes, TCP!IntTypes, TCP!SignedTypes,
       TCP!UnsignedTypes, TCP!FloatTypes, TCP!Sentinel, TCP!Blocks, TCP!ThenBlocks,
       TCP!NoFunction, TC!ScopeMaps, TC!BuiltinTypes, TC!IntTypes, TC!SignedTypes,
       TC!UnsignedTypes, TC!FloatTypes, TC!Sentinel, TC!Blocks, TC!ThenBlocks, TC!NoFunction

LEMMA SentinelIsNoType == TC!Sentinel \notin TC!BuiltinTypes
BY DEF TC!Sentinel, TC!BuiltinTypes, TC!IntTypes, TC!SignedTypes, TC!UnsignedTypes, TC!FloatTypes

\* find returns what some scope of the stack holds.
LEMMA FoundInScope ==
    ASSUME NEW s \in Seq(TC!ScopeMaps), deficit \in Nat, NEW n \in Names
    PROVE  /\ TC!find(s, n) \in TC!BuiltinTypes \cup {TC!Sentinel}
           /\ TC!find(s, n) # TC!Sentinel => \E i \in 1 .. Len(s) : s[i][n] # TC!Sentinel
<1> DEFINE H == TC!Hits(s, n)
<1>1. H \subseteq 1 .. Len(s) /\ \A i \in H : s[i][n] # TC!Sentinel
  BY DEF TC!Hits, TC!Slots
<1>2. \A i \in 1 .. Len(s) : s[i][n] \in TC!BuiltinTypes \cup {TC!Sentinel}
  BY DEF TC!ScopeMaps
<1>3. CASE H = {}
  BY <1>3 DEF TC!find
<1>4. CASE H # {}
  <2>1. TC!find(s, n) = s[TC!Outermost(H)][n]
    BY <1>4 DEF TC!find
  <2>2. TC!Outermost(H) \in H
    <3> HIDE DEF H
    <3>1. H \subseteq Nat
      BY <1>1
    <3>2. \E x \in H : \A y \in H : x <= y
      BY <1>4, <3>1, GeneratorAssumption, CGP!LeastNatural
    <3>3. QED
      BY <3>2, Zenon DEF TC!Outermost
  <2> HIDE DEF H
  <2>3. QED
    BY <1>1, <1>2, <2>1, <2>2
<1>5. QED
  BY <1>3, <1>4

LEMMA VisibleScopes ==
    ASSUME NEW s \in Seq(TC!ScopeMaps), deficit \in Nat
    PROVE  /\ TC!Visible(s) \in TC!ScopeMaps
           /\ \A n \in Names : TC!Visible(s)[n] = TC!find(s, n)
BY FoundInScope DEF TC!Visible, TC!ScopeMaps

\* What a scope below the top n holds is declared in a block of the walk.
LEMMA FoundDeclared ==
    ASSUME TCP!RInv, NEW s \in Seq(TC!ScopeMaps), Len(s) <= Len(scopes),
           \A i \in 1 .. Len(s) : s[i] = scopes[i],
           NEW n \in Names, TC!find(s, n) # TC!Sentinel
    PROVE  \E l \in Nat : /\ <<l, n>> \in DeclaredIn(scopes, walk)
                          /\ l <= Len(walk) - (Len(scopes) - Len(s))
<1>1. /\ scopes \in Seq(TC!ScopeMaps) /\ walk \in Seq(TC!Blocks) /\ deficit \in Nat
      /\ Len(scopes) = Len(walk) + (IF fns = 0 THEN 1 ELSE 0)
      /\ fns = 0 => scopes[1][n] = TC!Sentinel
  BY CheckerFacts
<1>2. PICK i \in 1 .. Len(s) : s[i][n] # TC!Sentinel
  BY <1>1, FoundInScope
<1>3. PICK l \in Int : l = i - (Len(scopes) - Len(walk))
  BY <1>1
<1>4. l \in 1 .. Len(walk) /\ Len(scopes) - Len(walk) + l = i
  BY <1>1, <1>2, <1>3
<1>5. <<l, n>> \in DeclaredIn(scopes, walk)
  BY <1>2, <1>4 DEF DeclaredIn
<1>6. l \in Nat /\ l <= Len(walk) - (Len(scopes) - Len(s))
  BY <1>1, <1>2, <1>3, <1>4
<1>7. QED
  BY <1>5, <1>6

\* An expression the checker accepts reads only what is declared.
LEMMA AcceptedReadable ==
    ASSUME TCP!RInv, NEW s \in Seq(TC!ScopeMaps), NEW e \in Exprs,
           Len(s) <= Len(scopes), \A i \in 1 .. Len(s) : s[i] = scopes[i],
           NEW decl, \A d \in DeclaredIn(scopes, walk) :
               d[1] <= Len(walk) - (Len(scopes) - Len(s)) => d \in decl,
           \/ InferTop(e, TC!Visible(s), function_map).ok
           \/ \E t \in TC!BuiltinTypes : CheckExpr(e, t, TC!Visible(s), function_map).ok
    PROVE  Readable(decl, Here, e)
<1>1. deficit \in Nat /\ function_map \in SUBSET FnNames
  BY CheckerFacts
<1>2. TC!Visible(s) \in TC!ScopeMaps /\ \A n \in Names : TC!Visible(s)[n] = TC!find(s, n)
  BY <1>1, VisibleScopes
<1>3. /\ VarsOf(e) \subseteq Names
      /\ \A n \in VarsOf(e) : TC!Visible(s)[n] # TC!Sentinel
      /\ CallsOf(e) \subseteq function_map
  BY <1>1, <1>2, ExprsAssumption
<1>4. ASSUME NEW n \in VarsOf(e)
      PROVE  \E l \in Nat : <<l, n>> \in decl
  <2>1. n \in Names /\ TC!find(s, n) # TC!Sentinel
    BY <1>2, <1>3
  <2>2. PICK l \in Nat : /\ <<l, n>> \in DeclaredIn(scopes, walk)
                         /\ l <= Len(walk) - (Len(scopes) - Len(s))
    BY <2>1, FoundDeclared
  <2>3. <<l, n>> \in decl
    BY <2>2
  <2>4. QED
    BY <2>3
<1>5. QED
  BY <1>3, <1>4 DEF Readable, Here, View

(***************************************************************************)
(* The names declared, as the stack and the walk change.                   *)
(***************************************************************************)
LEMMA DeclaredPush ==
    ASSUME NEW s \in Seq(TC!ScopeMaps), NEW w \in Seq(TC!Blocks), Len(s) >= Len(w), NEW k \in TC!Blocks
    PROVE  DeclaredIn(TC!Push(s), Append(w, k)) = DeclaredIn(s, w)
<1>1. /\ Len(TC!Push(s)) = Len(s) + 1 /\ Len(Append(w, k)) = Len(w) + 1
      /\ \A i \in 1 .. Len(s) : TC!Push(s)[i] = s[i]
      /\ TC!Push(s)[Len(s) + 1] = TC!EmptyScope
      /\ Len(s) \in Nat /\ Len(w) \in Nat
  BY DEF TC!Push
<1>2. \A n \in Names : TC!EmptyScope[n] = TC!Sentinel
  BY DEF TC!EmptyScope
<1>3. ASSUME NEW l \in 1 .. Len(w) + 1, NEW n \in Names
      PROVE  <<l, n>> \in DeclaredIn(TC!Push(s), Append(w, k)) <=> <<l, n>> \in DeclaredIn(s, w)
  <2>1. CASE l = Len(w) + 1
    <3>1. Len(s) + 1 - (Len(w) + 1) + l = Len(s) + 1
      BY <1>1, <2>1
    <3>2. QED
      BY <1>1, <1>2, <2>1, <3>1 DEF DeclaredIn
  <2>2. CASE l \in 1 .. Len(w)
    <3>1. /\ Len(s) + 1 - (Len(w) + 1) + l = Len(s) - Len(w) + l
          /\ Len(s) - Len(w) + l \in 1 .. Len(s)
      BY <1>1, <2>2
    <3>2. PICK i : i = Len(s) - Len(w) + l
      OBVIOUS
    <3>3. /\ i \in 1 .. Len(s)
          /\ Len(TC!Push(s)) - Len(Append(w, k)) + l = i
      BY <1>1, <3>1, <3>2
    <3>4. TC!Push(s)[i] = s[i]
      BY <1>1, <3>3
    <3>5. l \in 1 .. Len(Append(w, k))
      BY <1>1
    <3>6. QED
      BY <2>2, <3>2, <3>3, <3>4, <3>5, SameDeclared
  <2>3. QED
    BY <2>1, <2>2, <1>1
<1>4. /\ DeclaredIn(TC!Push(s), Append(w, k)) \subseteq (1 .. Len(w) + 1) \X Names
      /\ DeclaredIn(s, w) \subseteq (1 .. Len(w) + 1) \X Names
  BY <1>1 DEF DeclaredIn
<1>5. PICK A, B, I : /\ A = DeclaredIn(TC!Push(s), Append(w, k)) /\ B = DeclaredIn(s, w)
                     /\ I = 1 .. Len(w) + 1
  OBVIOUS
<1>6. A = B
  <2>1. A \subseteq I \X Names /\ B \subseteq I \X Names
    BY <1>4, <1>5
  <2>2. \A l \in I, n \in Names : <<l, n>> \in A <=> <<l, n>> \in B
    <3>1. TAKE l \in I, n \in Names
    <3>2. l \in 1 .. Len(w) + 1
      BY <1>5
    <3>3. <<l, n>> \in DeclaredIn(TC!Push(s), Append(w, k)) <=> <<l, n>> \in DeclaredIn(s, w)
      BY <1>3, <3>2
    <3>4. QED
      BY <1>5, <3>3, Zenon
  <2>3. \A d \in I \X Names : d = <<d[1], d[2]>> /\ d[1] \in I /\ d[2] \in Names
    OBVIOUS
  <2>4. \A d \in I \X Names : d \in A <=> d \in B
    BY <2>2, <2>3
  <2>5. QED
    BY <2>1, <2>4
<1>7. QED
  BY <1>5, <1>6

LEMMA DeclaredPop ==
    ASSUME NEW s \in Seq(TC!ScopeMaps), NEW w \in Seq(TC!Blocks), Len(s) >= Len(w), w # << >>
    PROVE  DeclaredIn(Popped(s), Popped(w)) = {d \in DeclaredIn(s, w) : d[1] < Len(w)}
<1>1. /\ Len(w) \in Nat \ {0} /\ Len(s) \in Nat \ {0} /\ s # << >>
  OBVIOUS
<1>2. /\ Len(Popped(s)) = Len(s) - 1 /\ Len(Popped(w)) = Len(w) - 1
      /\ \A i \in 1 .. Len(s) - 1 : Popped(s)[i] = s[i]
  BY <1>1, LastFacts
<1>3. ASSUME NEW l \in 1 .. Len(w) - 1, NEW n \in Names
      PROVE  <<l, n>> \in DeclaredIn(Popped(s), Popped(w)) <=> <<l, n>> \in DeclaredIn(s, w)
  <2>1. /\ (Len(s) - 1) - (Len(w) - 1) + l = Len(s) - Len(w) + l
        /\ Len(s) - Len(w) + l \in 1 .. Len(s) - 1
    BY <1>1
  <2>2. PICK i : i = Len(s) - Len(w) + l
    OBVIOUS
  <2>3. Popped(s)[i] = s[i] /\ Len(Popped(s)) - Len(Popped(w)) + l = i
    BY <1>2, <2>1, <2>2
  <2>4. l \in 1 .. Len(w) /\ l \in 1 .. Len(Popped(w))
    BY <1>1, <1>2
  <2>5. QED
    BY <2>2, <2>3, <2>4, SameDeclared
<1>4. /\ DeclaredIn(Popped(s), Popped(w)) \subseteq (1 .. Len(w) - 1) \X Names
      /\ {d \in DeclaredIn(s, w) : d[1] < Len(w)} \subseteq (1 .. Len(w) - 1) \X Names
  BY <1>1, <1>2 DEF DeclaredIn
<1>5. \A d \in (1 .. Len(w) - 1) \X Names :
         d = <<d[1], d[2]>> /\ d[1] < Len(w) /\ d[1] \in 1 .. Len(w) - 1 /\ d[2] \in Names
  BY <1>1
<1>6. QED
  BY <1>3, <1>4, <1>5

LEMMA DeclaredStore ==
    ASSUME scopes \in Seq(TC!ScopeMaps), walk \in Seq(TC!Blocks), Len(scopes) >= Len(walk), walk # << >>,
           NEW n \in Names, NEW t \in TC!BuiltinTypes
    PROVE  DeclaredIn(TC!store(n, t), walk) = DeclaredIn(scopes, walk) \cup {<<Len(walk), n>>}
<1> DEFINE s == TC!store(n, t)
<1>1. Len(walk) \in Nat \ {0} /\ Len(scopes) \in Nat \ {0}
  OBVIOUS
<1>2. /\ Len(s) = Len(scopes)
      /\ \A i \in 1 .. Len(scopes), m \in Names :
            s[i][m] = IF i = Len(scopes) /\ m = n THEN t ELSE scopes[i][m]
  BY <1>1 DEF TC!store, TC!ScopeMaps
<1> HIDE DEF s
<1>3. ASSUME NEW l \in 1 .. Len(walk), NEW m \in Names
      PROVE  <<l, m>> \in DeclaredIn(s, walk)
                <=> <<l, m>> \in DeclaredIn(scopes, walk) \/ (l = Len(walk) /\ m = n)
  <2>1. /\ Len(scopes) - Len(walk) + l \in 1 .. Len(scopes)
        /\ Len(scopes) - Len(walk) + l = Len(scopes) <=> l = Len(walk)
    BY <1>1
  <2>2. QED
    BY <1>2, <2>1, SentinelIsNoType DEF DeclaredIn
<1>4. /\ DeclaredIn(s, walk) \subseteq (1 .. Len(walk)) \X Names
      /\ DeclaredIn(scopes, walk) \cup {<<Len(walk), n>>} \subseteq (1 .. Len(walk)) \X Names
  BY <1>1 DEF DeclaredIn
<1>5. \A d \in (1 .. Len(walk)) \X Names :
         d = <<d[1], d[2]>> /\ d[1] \in 1 .. Len(walk) /\ d[2] \in Names
  BY <1>1
<1>6. DeclaredIn(s, walk) = DeclaredIn(scopes, walk) \cup {<<Len(walk), n>>}
  BY <1>3, <1>4, <1>5
<1>7. QED
  BY <1>6 DEF s

(***************************************************************************)
(* Each visit of the checker that goes on, seen in its view.               *)
(***************************************************************************)
LEMMA EmptyWalk == \A s : DeclaredIn(s, << >>) = {}
BY DEF DeclaredIn

LEMMA HereDeclared ==
    Here.walk = walk /\ Here.decl = DeclaredIn(scopes, walk) /\ Here.known = function_map
    /\ Here.caller = current /\ Here.fns = fns
BY DEF Here, View

LEMMA WholeStackReadable ==
    ASSUME TCP!RInv, NEW e \in Exprs,
           \/ InferTop(e, TC!Visible(scopes), function_map).ok
           \/ \E t \in TC!BuiltinTypes : CheckExpr(e, t, TC!Visible(scopes), function_map).ok
    PROVE  Readable(Here.decl, Here, e)
<1>1. scopes \in Seq(TC!ScopeMaps) /\ Len(scopes) <= Len(scopes) /\ Here.decl = DeclaredIn(scopes, walk)
  BY CheckerFacts, HereDeclared
<1>2. QED
  BY <1>1, AcceptedReadable

\* What some open scope holds for a name, the name is declared by.
LEMMA VisibleDeclared ==
    ASSUME TCP!RInv, NEW n \in Names, TC!find(scopes, n) # TC!Sentinel
    PROVE  \E l \in Nat : <<l, n>> \in Here.decl
<1>1. scopes \in Seq(TC!ScopeMaps) /\ Len(scopes) <= Len(scopes) /\ Here.decl = DeclaredIn(scopes, walk)
  BY CheckerFacts, HereDeclared
<1>2. QED
  BY <1>1, FoundDeclared

LEMMA InferredConcrete ==
    ASSUME TCP!RInv, NEW e \in Exprs, NEW s \in Seq(TC!ScopeMaps),
           InferTop(e, TC!Visible(s), function_map).ok
    PROVE  InferTop(e, TC!Visible(s), function_map).type \in TC!BuiltinTypes
<1>1. TC!Visible(s) \in TC!ScopeMaps /\ function_map \in SUBSET FnNames
  BY CheckerFacts, VisibleScopes
<1>2. QED
  BY <1>1, ExprsAssumption

LEMMA VisitedDeclare ==
    ASSUME TCP!RInv, NEW n \in Names, NEW e \in Exprs, NEW a \in Annotations \cup {TC!NoAnnotation},
           TC!Declare(n, a, e), tc' # "rejected"
    PROVE  Visited(start, Here, WithName("declare", n, e), Here')
<1> DEFINE r == IF a = TC!NoAnnotation THEN InferTop(e, TC!Visible(scopes), function_map)
                ELSE CheckExpr(e, a, TC!Visible(scopes), function_map)
           t == IF a = TC!NoAnnotation THEN r.type ELSE a
<1>1. /\ walk # << >> /\ r.ok /\ scopes' = TC!store(n, t)
      /\ UNCHANGED <<function_map, walk, current, fns>>
  BY DEF TC!Declare, TC!InBlock
<1>2. scopes \in Seq(TC!ScopeMaps) /\ walk \in Seq(TC!Blocks) /\ Len(scopes) >= Len(walk)
  BY CheckerFacts
<1>3. t \in TC!BuiltinTypes
  BY <1>1, <1>2, InferredConcrete, BoundsAssumption
<1>4. Readable(Here.decl, Here, e)
  BY <1>1, WholeStackReadable, BoundsAssumption
<1>5. DeclaredIn(scopes', walk') = DeclaredIn(scopes, walk) \cup {<<Len(walk), n>>}
  <2> HIDE DEF t, r
  <2>1. DeclaredIn(TC!store(n, t), walk) = DeclaredIn(scopes, walk) \cup {<<Len(walk), n>>}
    BY <1>1, <1>2, <1>3, DeclaredStore
  <2>2. QED
    BY <1>1, <2>1
<1>6. Here' = Declared(Here, n)
  BY <1>1, <1>5 DEF Here, View, Declared
<1>7. QED
  BY <1>1, <1>4, <1>6, HereDeclared DEF Visited, WithName

LEMMA SameHere ==
    ASSUME UNCHANGED <<scopes, walk, function_map, current, fns>>
    PROVE  Here' = Here
BY DEF Here, View, DeclaredIn

LEMMA VisitedAssign ==
    ASSUME TCP!RInv, NEW n \in Names, NEW e \in Exprs, TC!Assign(n, e), tc' # "rejected"
    PROVE  Visited(start, Here, WithName("assign", n, e), Here')
<1>1. /\ TC!find(scopes, n) # TC!Sentinel
      /\ CheckExpr(e, TC!find(scopes, n), TC!Visible(scopes), function_map).ok
      /\ UNCHANGED <<scopes, walk, function_map, current, fns>>
  BY DEF TC!Assign, TC!Accepts
<1>2. scopes \in Seq(TC!ScopeMaps) /\ deficit \in Nat
  BY CheckerFacts
<1>3. TC!find(scopes, n) \in TC!BuiltinTypes
  BY <1>1, <1>2, FoundInScope
<1>4. Readable(Here.decl, Here, e)
  BY <1>1, <1>3, WholeStackReadable
<1>5. \E l \in Nat : <<l, n>> \in Here.decl
  BY <1>1, VisibleDeclared
<1>6. QED
  BY <1>1, <1>4, <1>5, SameHere DEF Visited, WithName

LEMMA VisitedValue ==
    ASSUME TCP!RInv, NEW e \in Exprs, NEW op \in {"show", "return"},
           TC!Show(e) \/ TC!Return(e), tc' # "rejected"
    PROVE  Visited(start, Here, WithExpr(op, e), Here')
<1>1. /\ InferTop(e, TC!Visible(scopes), function_map).ok
      /\ UNCHANGED <<scopes, walk, function_map, current, fns>>
  BY DEF TC!Show, TC!Return, TC!Accepts
<1>2. Readable(Here.decl, Here, e)
  BY <1>1, WholeStackReadable
<1>3. QED
  BY <1>1, <1>2, SameHere DEF Visited, WithExpr

LEMMA VisitedJump ==
    ASSUME TCP!RInv, NEW op \in {"break", "cycle"}, TC!Jump, tc' # "rejected"
    PROVE  Visited(start, Here, Leaf(op), Here')
<1>1. loop_depth # 0 /\ UNCHANGED <<scopes, walk, function_map, current, fns>>
  BY DEF TC!Jump
<1>2. ASSUME start = 0
      PROVE  \E i \in 1 .. Len(walk) : walk[i] = "loop"
  <2>1. TCP!Loops(walk) # {}
    BY <1>1, <1>2, TCP!CounterZero, CheckerAssumptions DEF TCP!RInv
  <2>2. QED
    BY <2>1, CheckerFacts DEF TCP!Loops
<1>3. QED
  BY <1>1, <1>2, SameHere, HereDeclared DEF Visited, Leaf

LEMMA VisitedOpen ==
    ASSUME TCP!RInv, NEW k \in TC!Blocks, walk # << >>,
           scopes' = TC!Push(scopes), walk' = Append(walk, k),
           UNCHANGED <<function_map, current, fns>>
    PROVE  Here' = Open(Here, k)
<1>1. scopes \in Seq(TC!ScopeMaps) /\ walk \in Seq(TC!Blocks) /\ Len(scopes) >= Len(walk)
  BY CheckerFacts
<1>2. DeclaredIn(scopes', walk') = DeclaredIn(scopes, walk)
  BY <1>1, DeclaredPush
<1>3. QED
  BY <1>2 DEF Here, View, Open

LEMMA VisitedClose ==
    ASSUME TCP!RInv, walk # << >>,
           scopes' = TC!Pop(scopes), walk' = TC!Pop(walk),
           UNCHANGED <<function_map, current, fns>>
    PROVE  Here' = Close(Here)
<1>1. scopes \in Seq(TC!ScopeMaps) /\ walk \in Seq(TC!Blocks) /\ Len(scopes) >= Len(walk)
  BY CheckerFacts
<1>2. scopes' = Popped(scopes) /\ walk' = Popped(walk)
  BY DEF TC!Pop, Popped
<1>3. DeclaredIn(Popped(scopes), Popped(walk)) = {d \in DeclaredIn(scopes, walk) : d[1] < Len(walk)}
  BY <1>1, DeclaredPop
<1>4. QED
  BY <1>2, <1>3 DEF Here, View, Close, Outer

LEMMA VisitedReopen ==
    ASSUME TCP!RInv, NEW k \in TC!Blocks, walk # << >>,
           scopes' = TC!Push(TC!Pop(scopes)), walk' = Append(TC!Pop(walk), k),
           UNCHANGED <<function_map, current, fns>>
    PROVE  Here' = Reopen(Here, k)
<1>1. scopes \in Seq(TC!ScopeMaps) /\ walk \in Seq(TC!Blocks) /\ Len(scopes) >= Len(walk)
  BY CheckerFacts
<1>2. PICK s, w : s = Popped(scopes) /\ w = Popped(walk)
  OBVIOUS
<1>3. scopes' = TC!Push(s) /\ walk' = Append(w, k)
  BY <1>2 DEF TC!Pop, Popped
<1>4. DeclaredIn(s, w) = {d \in DeclaredIn(scopes, walk) : d[1] < Len(walk)}
  BY <1>1, <1>2, DeclaredPop
<1>5. s \in Seq(TC!ScopeMaps) /\ w \in Seq(TC!Blocks) /\ Len(s) >= Len(w)
  BY <1>1, <1>2, LastFacts
<1>6. DeclaredIn(TC!Push(s), Append(w, k)) = DeclaredIn(s, w)
  BY <1>5, DeclaredPush
<1>7. QED
  BY <1>2, <1>3, <1>4, <1>6 DEF Here, View, Reopen, Outer

(***************************************************************************)
(* The trace of the checker's views.                                       *)
(***************************************************************************)
LEMMA ViewInWalk ==
    ASSUME NEW s, NEW w \in Seq(TC!Blocks), NEW k \in SUBSET FnNames,
           NEW c \in FnNames \cup {TC!NoFunction}, NEW n \in Nat
    PROVE  InWalk(View(w, DeclaredIn(s, w), k, c, n))
<1>1. /\ DeclaredIn(s, w) \subseteq (1 .. Len(w)) \X Names
      /\ DeclaredIn(s, w) \subseteq Nat \X Names
      /\ \A d \in DeclaredIn(s, w) : d[1] \in 1 .. Len(w)
  BY DEF DeclaredIn
<1>2. QED
  BY <1>1 DEF InWalk, View, Views

LEMMA HereInWalk == TCP!RInv' => InWalk(Here')
<1>1. ASSUME TCP!RInv'
      PROVE  /\ walk' \in Seq(TC!Blocks) /\ function_map' \in SUBSET FnNames
             /\ current' \in FnNames \cup {TC!NoFunction} /\ fns' \in Nat
  BY <1>1, BoundsAssumption
     DEF TCP!RInv, TCP!IInv, TCP!TypeOK, TCP!Blocks, TCP!ThenBlocks, TCP!NoFunction,
         TC!Blocks, TC!ThenBlocks, TC!NoFunction
<1>2. QED
  BY <1>1, ViewInWalk DEF Here

TraceInv ==
    /\ tree \in Seq(Nodes)
    /\ \E S : /\ IsTrace(S, tree, start)
              /\ tc = "running" => S[Len(S)] = Here

LEMMA TraceExtends ==
    ASSUME NEW t \in Seq(Nodes), NEW z, NEW S, IsTrace(S, t, z), NEW n \in Nodes,
           NEW p, NEW q, S[Len(S)] = p, Visited(z, p, n, q), InWalk(q)
    PROVE  \E R : IsTrace(R, Append(t, n), z) /\ R[Len(R)] = q
<1>1. /\ S \in Seq(Views) /\ Len(S) = Len(t) + 1 /\ S[1] = Begin
      /\ \A i \in 1 .. Len(S) : InWalk(S[i])
      /\ \A i \in 1 .. Len(t) : Visited(z, S[i], t[i], S[i + 1])
      /\ q \in Views
  BY DEF IsTrace, InWalk
<1>2. PICK R, u : R = Append(S, q) /\ u = Append(t, n)
  OBVIOUS
<1>3. /\ R \in Seq(Views) /\ Len(R) = Len(t) + 2
      /\ \A i \in 1 .. Len(t) + 1 : R[i] = S[i]
      /\ R[Len(t) + 2] = q
      /\ u \in Seq(Nodes) /\ Len(u) = Len(t) + 1
      /\ \A i \in 1 .. Len(t) : u[i] = t[i]
      /\ u[Len(t) + 1] = n
      /\ Len(t) \in Nat
  BY <1>1, <1>2
<1>4. ASSUME NEW i \in 1 .. Len(R)
      PROVE  InWalk(R[i])
  BY <1>1, <1>3, i \in 1 .. Len(S) \/ i = Len(t) + 2
<1>5. ASSUME NEW i \in 1 .. Len(u)
      PROVE  Visited(z, R[i], u[i], R[i + 1])
  <2>1. CASE i = Len(t) + 1
    <3>1. R[i] = p /\ u[i] = n /\ R[i + 1] = q
      BY <1>1, <1>3, <2>1
    <3>2. QED
      BY <3>1
  <2>2. CASE i \in 1 .. Len(t)
    <3>1. i \in 1 .. Len(t) + 1 /\ i + 1 \in 1 .. Len(t) + 1
      BY ONLY <1>3, <2>2
    <3>2. R[i] = S[i] /\ u[i] = t[i] /\ R[i + 1] = S[i + 1]
      BY ONLY <1>3, <2>2, <3>1
    <3>3. QED
      BY <1>1, <2>2, <3>2
  <2>3. QED
    BY <1>3, <2>1, <2>2
<1>6. IsTrace(R, u, z)
  BY <1>1, <1>3, <1>4, <1>5 DEF IsTrace
<1>7. R[Len(R)] = q
  BY <1>3
<1>8. QED
  BY <1>2, <1>6, <1>7

LEMMA VisitKeepsTrace ==
    ASSUME TCP!RInv', TraceInv, NEW n \in Nodes, tc = "running", Visit(n), start' = start,
           tc' # "rejected" => Visited(start, Here, n, Here')
    PROVE  TraceInv'
<1>1. PICK S : IsTrace(S, tree, start) /\ S[Len(S)] = Here
  BY DEF TraceInv
<1>2. CASE tc' = "rejected"
  BY <1>1, <1>2 DEF TraceInv, Visit
<1>3. CASE tc' # "rejected"
  <2>1. PICK p, q, t, z : p = Here /\ q = Here' /\ t = tree /\ z = start
    OBVIOUS
  <2>2. InWalk(q) /\ Visited(z, p, n, q)
    BY <1>3, <2>1, HereInWalk
  <2>3. t \in Seq(Nodes) /\ IsTrace(S, t, z) /\ S[Len(S)] = p
    BY <1>1, <2>1 DEF TraceInv
  <2>4. PICK R : IsTrace(R, Append(t, n), z) /\ R[Len(R)] = q
    BY <2>2, <2>3, TraceExtends
  <2>5. tree' = Append(t, n) /\ Append(t, n) \in Seq(Nodes)
    BY <1>3, <2>1, <2>3 DEF Visit
  <2>6. QED
    BY <2>1, <2>4, <2>5 DEF TraceInv
<1>4. QED
  BY <1>2, <1>3

LEMMA TraceStill ==
    ASSUME TraceInv, UNCHANGED <<tree, start, scopes, walk, function_map, current, fns>>,
           tc' = "running" => tc = "running"
    PROVE  TraceInv'
<1>1. Here' = Here
  BY SameHere
<1>2. QED
  BY <1>1 DEF TraceInv

LEMMA LeafForms ==
    \A op \in {"endfn", "break", "cycle", "else", "endif", "loop", "endloop"} : Leaf(op) \in Nodes
BY DEF Nodes, Leaf

LEMMA TraceStatement ==
    ASSUME TCP!RInv, TCP!RInv', TraceInv, CheckStatement
    PROVE  TraceInv'
<1>1. ASSUME NEW n \in Names, NEW e \in Exprs, NEW a \in Annotations \cup {TC!NoAnnotation},
             TC!Declare(n, a, e), Visit(WithName("declare", n, e))
      PROVE  TraceInv'
  <2>1. tc = "running" /\ start' = start
    BY <1>1 DEF TC!Declare, TC!InBlock
  <2>2. tc' # "rejected" => Visited(start, Here, WithName("declare", n, e), Here')
    BY <1>1, VisitedDeclare
  <2>3. WithName("declare", n, e) \in Nodes
    BY DEF Nodes, WithName
  <2>4. QED
    BY <1>1, <2>1, <2>2, <2>3, VisitKeepsTrace
<1>2. ASSUME NEW n \in Names, NEW e \in Exprs,
             TC!Assign(n, e), Visit(WithName("assign", n, e))
      PROVE  TraceInv'
  <2>1. tc = "running" /\ start' = start
    BY <1>2 DEF TC!Assign, TC!InBlock
  <2>2. tc' # "rejected" => Visited(start, Here, WithName("assign", n, e), Here')
    BY <1>2, VisitedAssign
  <2>3. WithName("assign", n, e) \in Nodes
    BY DEF Nodes, WithName
  <2>4. QED
    BY <1>2, <2>1, <2>2, <2>3, VisitKeepsTrace
<1>3. ASSUME NEW e \in Exprs, NEW op \in {"show", "return"},
             TC!Show(e) \/ TC!Return(e), Visit(WithExpr(op, e))
      PROVE  TraceInv'
  <2>1. tc = "running" /\ start' = start
    BY <1>3 DEF TC!Show, TC!Return, TC!InBlock
  <2>2. tc' # "rejected" => Visited(start, Here, WithExpr(op, e), Here')
    BY <1>3, VisitedValue
  <2>3. WithExpr(op, e) \in Nodes
    BY DEF Nodes, WithExpr
  <2>4. QED
    BY <1>3, <2>1, <2>2, <2>3, VisitKeepsTrace
<1>4. ASSUME NEW op \in {"break", "cycle"}, TC!Jump, Visit(Leaf(op))
      PROVE  TraceInv'
  <2>1. tc = "running" /\ start' = start
    BY <1>4 DEF TC!Jump, TC!InBlock
  <2>2. tc' # "rejected" => Visited(start, Here, Leaf(op), Here')
    BY <1>4, VisitedJump
  <2>3. QED
    BY <1>4, <2>1, <2>2, LeafForms, VisitKeepsTrace
<1>5. QED
  BY <1>1, <1>2, <1>3, <1>4 DEF CheckStatement

LEMMA TraceBranch ==
    ASSUME TCP!RInv, TCP!RInv', TraceInv, CheckBranch
    PROVE  TraceInv'
<1>0. TC!ThenBlocks \subseteq TC!Blocks /\ "else" \in TC!Blocks
  BY DEF TC!Blocks
<1>1. ASSUME NEW e \in Exprs, NEW k \in TC!ThenBlocks,
             TC!EnterIf(e, k), Visit(WithKind("if", e, k))
      PROVE  TraceInv'
  <2>1. /\ tc = "running" /\ start' = start /\ walk # << >>
        /\ UNCHANGED <<function_map, current, fns>>
    BY <1>1 DEF TC!EnterIf, TC!InBlock
  <2>2. ASSUME tc' # "rejected"
        PROVE  Visited(start, Here, WithKind("if", e, k), Here')
    <3>1. /\ TC!Condition(e, scopes).ok
          /\ scopes' = TC!Push(scopes) /\ walk' = Append(walk, k)
      BY <1>1, <2>2 DEF TC!EnterIf, TC!Accepts
    <3>2. Readable(Here.decl, Here, e)
      <4>1. CheckExpr(e, "Bool", TC!Visible(scopes), function_map).ok
        BY <3>1 DEF TC!Condition
      <4>2. "Bool" \in TC!BuiltinTypes
        BY DEF TC!BuiltinTypes
      <4>3. QED
        BY <4>1, <4>2, WholeStackReadable
    <3>3. Here' = Open(Here, k)
      BY <1>0, <2>1, <3>1, VisitedOpen
    <3>4. QED
      BY <2>1, <3>2, <3>3, HereDeclared DEF Visited, WithKind
  <2>3. WithKind("if", e, k) \in Nodes
    BY DEF Nodes, WithKind
  <2>4. QED
    BY <1>1, <2>1, <2>2, <2>3, VisitKeepsTrace
<1>2. ASSUME NEW e \in Exprs, NEW k \in TC!ThenBlocks,
             TC!ElseIf(e, k), Visit(WithKind("elseif", e, k))
      PROVE  TraceInv'
  <2>1. /\ tc = "running" /\ start' = start /\ walk # << >>
        /\ UNCHANGED <<function_map, current, fns>>
    BY <1>2 DEF TC!ElseIf, TC!At
  <2>2. ASSUME tc' # "rejected"
        PROVE  Visited(start, Here, WithKind("elseif", e, k), Here')
    <3>1. /\ TC!Condition(e, TC!Pop(scopes)).ok
          /\ scopes' = TC!Push(TC!Pop(scopes)) /\ walk' = Append(TC!Pop(walk), k)
      BY <1>2, <2>2 DEF TC!ElseIf, TC!Accepts, TC!Unwound
    <3>2. Readable(Outer(Here), Here, e)
      <4>1. PICK s : s = TC!Pop(scopes)
        OBVIOUS
      <4>2. /\ scopes \in Seq(TC!ScopeMaps) /\ walk \in Seq(TC!Blocks) /\ Len(scopes) >= Len(walk)
        BY CheckerFacts
      <4>3. scopes # << >>
        BY <2>1, <4>2
      <4>4. /\ s \in Seq(TC!ScopeMaps) /\ Len(s) = Len(scopes) - 1
            /\ \A i \in 1 .. Len(s) : s[i] = scopes[i]
        BY <4>1, <4>2, <4>3, LastFacts DEF TC!Pop, Popped
      <4>5. CheckExpr(e, "Bool", TC!Visible(s), function_map).ok
        BY <3>1, <4>1 DEF TC!Condition
      <4>6. "Bool" \in TC!BuiltinTypes
        BY DEF TC!BuiltinTypes
      <4>7. \A d \in DeclaredIn(scopes, walk) :
               d[1] <= Len(walk) - (Len(scopes) - Len(s)) => d \in Outer(Here)
        <5>1. \A d \in DeclaredIn(scopes, walk) : d[1] \in Nat
          BY DEF DeclaredIn
        <5>2. Outer(Here) = {d \in DeclaredIn(scopes, walk) : d[1] < Len(walk)}
          BY HereDeclared DEF Outer
        <5>3. QED
          BY <4>2, <4>4, <5>1, <5>2
      <4>8. Len(s) <= Len(scopes)
        BY <4>2, <4>4
      <4>9. QED
        BY <4>4, <4>5, <4>6, <4>7, <4>8, AcceptedReadable
    <3>3. Here' = Reopen(Here, k)
      BY <1>0, <2>1, <3>1, VisitedReopen
    <3>4. QED
      BY <2>1, <3>2, <3>3, HereDeclared DEF Visited, WithKind
  <2>3. WithKind("elseif", e, k) \in Nodes
    BY DEF Nodes, WithKind
  <2>4. QED
    BY <1>2, <2>1, <2>2, <2>3, VisitKeepsTrace
<1>3. ASSUME TC!EnterElse, Visit(Leaf("else"))
      PROVE  TraceInv'
  <2>1. /\ tc = "running" /\ start' = start /\ walk # << >>
        /\ UNCHANGED <<function_map, current, fns>>
        /\ scopes' = TC!Push(TC!Pop(scopes)) /\ walk' = Append(TC!Pop(walk), "else")
    BY <1>3 DEF TC!EnterElse, TC!At, TC!Unwound
  <2>2. Here' = Reopen(Here, "else")
    BY <1>0, <2>1, VisitedReopen
  <2>3. Visited(start, Here, Leaf("else"), Here')
    BY <2>1, <2>2, HereDeclared DEF Visited, Leaf
  <2>4. QED
    BY <1>3, <2>1, <2>3, LeafForms, VisitKeepsTrace
<1>4. ASSUME TC!LeaveIf, Visit(Leaf("endif"))
      PROVE  TraceInv'
  <2>1. /\ tc = "running" /\ start' = start /\ walk # << >>
        /\ UNCHANGED <<function_map, current, fns>>
        /\ scopes' = TC!Pop(scopes) /\ walk' = TC!Pop(walk)
    BY <1>4 DEF TC!LeaveIf, TC!At, TC!Unwound
  <2>2. Here' = Close(Here)
    BY <2>1, VisitedClose
  <2>3. Visited(start, Here, Leaf("endif"), Here')
    BY <2>1, <2>2, HereDeclared DEF Visited, Leaf
  <2>4. QED
    BY <1>4, <2>1, <2>3, LeafForms, VisitKeepsTrace
<1>5. QED
  BY <1>1, <1>2, <1>3, <1>4 DEF CheckBranch

LEMMA TraceLoop ==
    ASSUME TCP!RInv, TCP!RInv', TraceInv, CheckLoop
    PROVE  TraceInv'
<1>1. ASSUME TC!EnterLoop, Visit(Leaf("loop"))
      PROVE  TraceInv'
  <2>1. /\ tc = "running" /\ start' = start /\ walk # << >>
        /\ UNCHANGED <<function_map, current, fns>>
        /\ scopes' = TC!Push(scopes) /\ walk' = Append(walk, "loop")
    BY <1>1 DEF TC!EnterLoop, TC!InBlock
  <2>2. Here' = Open(Here, "loop")
    BY <2>1, VisitedOpen DEF TC!Blocks
  <2>3. Visited(start, Here, Leaf("loop"), Here')
    BY <2>1, <2>2, HereDeclared DEF Visited, Leaf
  <2>4. QED
    BY <1>1, <2>1, <2>3, LeafForms, VisitKeepsTrace
<1>2. ASSUME TC!LeaveLoop, Visit(Leaf("endloop"))
      PROVE  TraceInv'
  <2>1. /\ tc = "running" /\ start' = start /\ walk # << >>
        /\ UNCHANGED <<function_map, current, fns>>
        /\ scopes' = TC!Pop(scopes) /\ walk' = TC!Pop(walk)
    BY <1>2 DEF TC!LeaveLoop, TC!At, TC!Unwound
  <2>2. Here' = Close(Here)
    BY <2>1, VisitedClose
  <2>3. Visited(start, Here, Leaf("endloop"), Here')
    BY <2>1, <2>2, HereDeclared DEF Visited, Leaf
  <2>4. QED
    BY <1>2, <2>1, <2>3, LeafForms, VisitKeepsTrace
<1>3. QED
  BY <1>1, <1>2 DEF CheckLoop

LEMMA TraceFunction ==
    ASSUME TCP!RInv, TCP!RInv', TraceInv, CheckFunction
    PROVE  TraceInv'
<1>1. ASSUME NEW f \in FnNames, TC!EnterFunction(f), Visit([op |-> "fn", f |-> f])
      PROVE  TraceInv'
  <2>1. /\ tc = "running" /\ start' = start /\ walk = << >>
        /\ UNCHANGED <<function_map, fns>> /\ current' = f
        /\ scopes' = TC!Push(scopes) /\ walk' = <<"fn">>
    BY <1>1 DEF TC!EnterFunction
  <2>2. DeclaredIn(scopes', walk') = {}
    <3>1. /\ scopes \in Seq(TC!ScopeMaps) /\ << >> \in Seq(TC!Blocks)
          /\ Len(scopes) >= Len(<< >>) /\ "fn" \in TC!Blocks
      BY CheckerFacts DEF TC!Blocks
    <3>2. DeclaredIn(TC!Push(scopes), Append(<< >>, "fn")) = DeclaredIn(scopes, << >>)
      BY ONLY <3>1, DeclaredPush
    <3>3. Append(<< >>, "fn") = <<"fn">>
      OBVIOUS
    <3>4. QED
      BY <2>1, <3>2, <3>3, EmptyWalk
  <2>3. Here' = BeginFn(Here, f)
    BY <2>1, <2>2 DEF Here, View, BeginFn
  <2>4. Visited(start, Here, [op |-> "fn", f |-> f], Here')
    BY <2>1, <2>3, HereDeclared DEF Visited
  <2>5. [op |-> "fn", f |-> f] \in Nodes
    BY DEF Nodes
  <2>6. QED
    BY <1>1, <2>1, <2>4, <2>5, VisitKeepsTrace
<1>2. ASSUME TC!LeaveFunction, Visit(Leaf("endfn"))
      PROVE  TraceInv'
  <2>1. /\ tc = "running" /\ start' = start /\ walk # << >> /\ walk' = << >>
        /\ function_map' = function_map \cup {current}
        /\ current' = TC!NoFunction /\ fns' = fns + 1
    BY <1>2 DEF TC!LeaveFunction, TC!At
  <2>2. current \in FnNames
    BY <2>1, CheckerFacts
  <2>3. Here' = EndFn(Here)
    BY <2>1, EmptyWalk DEF Here, View, EndFn
  <2>4. Visited(start, Here, Leaf("endfn"), Here')
    BY <2>1, <2>2, <2>3, HereDeclared DEF Visited, Leaf
  <2>5. QED
    BY <1>2, <2>1, <2>4, LeafForms, VisitKeepsTrace
<1>3. QED
  BY <1>1, <1>2 DEF CheckFunction

LEMMA TraceStart == TC!Init /\ tree = << >> => TraceInv
<1>1. ASSUME TC!Init, tree = << >>
      PROVE  TraceInv
  <2>1. Here = Begin
    BY <1>1, EmptyWalk DEF Here, Begin, View, TC!Init
  <2>2. InWalk(Begin) /\ Begin \in Views
    BY DEF Begin, View, InWalk, Views
  <2>3. PICK S : S = <<Begin>>
    OBVIOUS
  <2>4. S \in Seq(Views) /\ Len(S) = 1 /\ S[1] = Begin
    BY <2>2, <2>3
  <2>5. tree \in Seq(Nodes) /\ Len(tree) = 0
    BY <1>1
  <2>6. IsTrace(S, tree, start)
    BY <2>2, <2>4, <2>5 DEF IsTrace
  <2>7. QED
    BY <2>1, <2>4, <2>5, <2>6 DEF TraceInv
<1>2. QED
  BY <1>1

LEMMA TraceStep ==
    ASSUME TCP!RInv, TCP!RInv', TraceInv, [Next]_fvars
    PROVE  TraceInv'
<1>1. CASE CheckStatement
  BY <1>1, TraceStatement
<1>2. CASE CheckBranch
  BY <1>2, TraceBranch
<1>3. CASE CheckLoop
  BY <1>3, TraceLoop
<1>4. CASE CheckFunction
  BY <1>4, TraceFunction
<1>5. CASE CheckEnds
  BY <1>5, TraceStill DEF CheckEnds, TC!Finish, TC!MemoryFault
<1>6. CASE Generate \/ Compile \/ Stopped \/ UNCHANGED fvars
  BY <1>6, TraceStill DEF Generate, Compile, Next1, Stopped, fvars, tcVars
<1>7. QED
  BY <1>1, <1>2, <1>3, <1>4, <1>5, <1>6 DEF Next

(***************************************************************************)
(* Regions.  D[d] are blocks that are only reached through block d: it is  *)
(* entered at d and nowhere else.  A block created while the builder is in *)
(* a region joins it.                                                      *)
(***************************************************************************)
RegionsOf(bs, D) ==
    /\ D \in [1 .. Len(bs) -> SUBSET (1 .. Len(bs))]
    /\ \A d \in 1 .. Len(bs) : d \in D[d]
    /\ \A d \in 1 .. Len(bs) : \A b \in D[d] :
           /\ bs[b].fn = bs[d].fn
           /\ b # d => \E c \in 1 .. b - 1 : bs[c].fn = bs[b].fn
    /\ \A s, d \in 1 .. Len(bs) : \A t \in bs[s].succ : t \in D[d] \ {d} => s \in D[d]

\* A region that reaches t, and does not begin there, holds s too.
Enters(D, n, s, t) == \A d \in 1 .. n : t \in D[d] \ {d} => s \in D[d]

Grow(D, n, m, at) ==
    [d \in 1 .. m |-> IF d > n THEN {d}
                      ELSE IF at \in D[d] THEN D[d] \cup ((n + 1) .. m) ELSE D[d]]

\* cs: bs, with blocks created behind those of bs in the function of block at
\* (0: in another), and the edges of E.
Changed(bs, cs, at, E) ==
    /\ Len(cs) \in Nat /\ Len(bs) \in Nat /\ Len(bs) <= Len(cs)
    /\ \A b \in 1 .. Len(bs) : cs[b].fn = bs[b].fn
    /\ at \in 0 .. Len(bs)
    /\ at # 0 => \A b \in (Len(bs) + 1) .. Len(cs) : cs[b].fn = bs[at].fn
    /\ \A b \in 1 .. Len(bs) : \A t \in cs[b].succ : t \in bs[b].succ \/ <<b, t>> \in E
    /\ \A b \in (Len(bs) + 1) .. Len(cs) : cs[b].succ = {}

GrownFrom(D, n, m, at, G) ==
    /\ G \in [1 .. m -> SUBSET (1 .. m)]
    /\ \A d \in 1 .. n : D[d] \subseteq G[d]
    /\ \A d \in 1 .. n : G[d] \cap (1 .. n) = D[d]
    /\ \A d \in 1 .. n : \A b \in G[d] : b > n => at \in D[d] /\ at # 0
    /\ \A d \in 1 .. n : at \in D[d] => (n + 1) .. m \subseteq G[d]
    /\ \A d \in (n + 1) .. m : G[d] = {d}

LEMMA Grown ==
    ASSUME NEW n \in Nat, NEW m \in Nat, n <= m, NEW at \in 0 .. n,
           NEW D \in [1 .. n -> SUBSET (1 .. n)], NEW G, G = Grow(D, n, m, at)
    PROVE  GrownFrom(D, n, m, at, G)
<1>1. \A d \in 1 .. m : G[d] = IF d > n THEN {d}
                      ELSE IF at \in D[d] THEN D[d] \cup ((n + 1) .. m) ELSE D[d]
  BY DEF Grow
<1>2. G = [d \in 1 .. m |-> G[d]]
  BY DEF Grow
<1>3. ASSUME NEW d \in (n + 1) .. m
      PROVE  G[d] = {d}
  <2>1. d \in 1 .. m /\ d > n
    OBVIOUS
  <2>2. QED
    BY <1>1, <2>1
<1>4. ASSUME NEW d \in 1 .. n
      PROVE  /\ D[d] \subseteq G[d] /\ G[d] \cap (1 .. n) = D[d] /\ G[d] \in SUBSET (1 .. m)
             /\ \A b \in G[d] : b > n => at \in D[d] /\ at # 0
             /\ at \in D[d] => (n + 1) .. m \subseteq G[d]
  <2>1. D[d] \in SUBSET (1 .. n)
    OBVIOUS
  <2>2. d \in 1 .. m /\ ~(d > n)
    OBVIOUS
  <2>3. G[d] = IF at \in D[d] THEN D[d] \cup ((n + 1) .. m) ELSE D[d]
    BY <1>1, <2>2
  <2>4. CASE at \in D[d]
    BY <2>1, <2>3, <2>4
  <2>5. CASE at \notin D[d]
    BY <2>1, <2>3, <2>5
  <2>6. QED
    BY <2>4, <2>5
<1>5. \A d \in 1 .. m : G[d] \in SUBSET (1 .. m)
  <2>1. \A d \in 1 .. m : d \in 1 .. n \/ d \in (n + 1) .. m
    OBVIOUS
  <2>2. QED
    BY <1>3, <1>4, <2>1
<1>6. G \in [1 .. m -> SUBSET (1 .. m)]
  BY <1>2, <1>5
<1>7. QED
  BY <1>3, <1>4, <1>6 DEF GrownFrom

LEMMA RegionsGrow ==
    ASSUME NEW bs, NEW cs, NEW D, RegionsOf(bs, D), NEW at, NEW E, Changed(bs, cs, at, E),
           \A b \in 1 .. Len(bs) : bs[b].succ \subseteq 1 .. Len(bs),
           \A s, t : <<s, t>> \in E =>
               \/ s = at /\ t \in (Len(bs) + 1) .. Len(cs)
               \/ s \in 1 .. Len(bs) /\ t \in 1 .. Len(bs) /\ Enters(D, Len(bs), s, t)
    PROVE  RegionsOf(cs, Grow(D, Len(bs), Len(cs), at))
<1> PICK n, m, G : n = Len(bs) /\ m = Len(cs) /\ G = Grow(D, Len(bs), Len(cs), at)
  OBVIOUS
<1>1. /\ n \in Nat /\ m \in Nat /\ n <= m /\ at \in 0 .. n
      /\ D \in [1 .. n -> SUBSET (1 .. n)]
  BY DEF Changed, RegionsOf
<1>2. /\ G \in [1 .. m -> SUBSET (1 .. m)]
      /\ \A d \in 1 .. n : D[d] \subseteq G[d]
      /\ \A d \in 1 .. n : G[d] \cap (1 .. n) = D[d]
      /\ \A d \in 1 .. n : \A b \in G[d] : b > n => at \in D[d] /\ at # 0
      /\ \A d \in (n + 1) .. m : G[d] = {d}
  <2>1. G = Grow(D, n, m, at)
    OBVIOUS
  <2>2. n \in Nat /\ m \in Nat /\ n <= m /\ at \in 0 .. n /\ D \in [1 .. n -> SUBSET (1 .. n)]
    BY ONLY <1>1
  <2>3. GrownFrom(D, n, m, at, G)
    BY ONLY <2>1, <2>2, Grown
  <2>4. QED
    BY ONLY <2>3 DEF GrownFrom
<1>3. ASSUME NEW d \in 1 .. m
      PROVE  d \in G[d]
  <2>1. CASE d \in 1 .. n
    <3>1. d \in D[d]
      BY <2>1 DEF RegionsOf
    <3>2. D[d] \subseteq G[d]
      BY ONLY <1>2, <2>1
    <3>3. QED
      BY ONLY <3>1, <3>2
  <2>2. CASE d \in (n + 1) .. m
    <3>1. G[d] = {d}
      BY ONLY <1>2, <2>2
    <3>2. QED
      BY ONLY <3>1
  <2>3. d \in 1 .. n \/ d \in (n + 1) .. m
    BY <1>1
  <2>4. QED
    BY <2>1, <2>2, <2>3
<1>4. ASSUME NEW d \in 1 .. m, NEW b \in G[d]
      PROVE  /\ cs[b].fn = cs[d].fn
             /\ b # d => \E c \in 1 .. b - 1 : cs[c].fn = cs[b].fn
  <2>1. CASE d \in (n + 1) .. m
    BY <1>2, <2>1
  <2>2. CASE d \in 1 .. n /\ b \in 1 .. n
    <3>1. b \in D[d]
      BY <1>2, <2>2
    <3>2. /\ bs[b].fn = bs[d].fn
          /\ b # d => \E c \in 1 .. b - 1 : bs[c].fn = bs[b].fn
      BY <2>2, <3>1 DEF RegionsOf
    <3>3. \A c \in 1 .. n : cs[c].fn = bs[c].fn
      BY DEF Changed
    <3>4. \A c \in 1 .. b - 1 : c \in 1 .. n
      BY <2>2, <1>1
    <3>5. QED
      BY <2>2, <3>2, <3>3, <3>4
  <2>3. CASE d \in 1 .. n /\ b \in (n + 1) .. m
    <3>1. at \in D[d] /\ at \in 1 .. n
      BY <1>1, <1>2, <2>3
    <3>2. bs[at].fn = bs[d].fn
      BY <2>3, <3>1 DEF RegionsOf
    <3>3. cs[b].fn = bs[at].fn /\ cs[at].fn = bs[at].fn /\ cs[d].fn = bs[d].fn
      BY <2>3, <3>1 DEF Changed
    <3>4. at \in 1 .. b - 1
      BY <1>1, <2>3, <3>1
    <3>5. QED
      BY <3>2, <3>3, <3>4
  <2>4. QED
    BY <1>1, <1>2, <2>1, <2>2, <2>3
<1>5. ASSUME NEW s \in 1 .. m, NEW d \in 1 .. m, NEW t \in cs[s].succ, t \in G[d] \ {d}
      PROVE  s \in G[d]
  <2>1. d \in 1 .. n
    BY <1>1, <1>2, <1>5
  <2>2. s \in 1 .. n
    BY <1>1, <1>5 DEF Changed
  <2>3. t \in bs[s].succ \/ <<s, t>> \in E
    BY <2>2 DEF Changed
  <2>4. CASE t \in 1 .. n
    <3>1. t \in D[d] \ {d}
      BY <1>2, <1>5, <2>1, <2>4
    <3>2. s \in D[d]
      <4>1. CASE t \in bs[s].succ
        BY <2>1, <2>2, <3>1, <4>1 DEF RegionsOf
      <4>2. CASE <<s, t>> \in E
        <5>1. Enters(D, n, s, t)
          BY <1>1, <2>4, <4>2
        <5>2. QED
          BY <2>1, <3>1, <5>1 DEF Enters
      <4>3. QED
        BY <2>3, <4>1, <4>2
    <3>3. QED
      BY <1>2, <2>1, <3>2
  <2>5. CASE t \notin 1 .. n
    <3>1. t \in (n + 1) .. m /\ at \in D[d]
      BY <1>1, <1>2, <1>5, <2>1, <2>5
    <3>2. <<s, t>> \in E
      BY <2>2, <2>3, <2>5
    <3>3. s = at
      BY <2>5, <3>2
    <3>4. QED
      BY <1>2, <2>1, <3>1, <3>3
  <2>6. QED
    BY <2>4, <2>5
<1>6. QED
  BY <1>2, <1>3, <1>4, <1>5 DEF RegionsOf

\* Regions grow with the module, so what was in one stays in it.
UsesIn(us, D, n) == \A u \in us : u[1] \in 1 .. n /\ u[2] \in D[u[1]]

LEMMA UsesGrow ==
    ASSUME NEW n \in Nat, NEW m \in Nat, n <= m, NEW at \in 0 .. n,
           NEW D \in [1 .. n -> SUBSET (1 .. n)], NEW us, UsesIn(us, D, n)
    PROVE  UsesIn(us, Grow(D, n, m, at), m)
<1>1. PICK G : G = Grow(D, n, m, at)
  OBVIOUS
<1>2. \A d \in 1 .. n : D[d] \subseteq G[d]
  BY <1>1, Grown DEF GrownFrom
<1>3. UsesIn(us, G, m)
  BY <1>2 DEF UsesIn
<1>4. QED
  BY <1>1, <1>3

(***************************************************************************)
(* The blocks the builder will still go on in, from inside frame i.        *)
(***************************************************************************)
Ahead(fr, c, i) ==
    {c} \cup {fr[j].end : j \in (i + 1) .. Len(fr)} \cup {fr[j].els : j \in (i + 1) .. Len(fr)}

\* A region that holds the end of a statement, or the body of a loop, holds
\* what is ahead of it.
Chain(fr, c, D, n) ==
    \A i \in 1 .. Len(fr) :
        /\ fr[i].end \in 0 .. n /\ fr[i].els \in 0 .. n /\ fr[i].body \in 0 .. n
        /\ \A d \in 1 .. n :
              /\ fr[i].end \in D[d] \ {d} =>
                    Ahead(fr, c, i) \cup {fr[i].els} \subseteq D[d] \cup {0}
              /\ fr[i].body \in D[d] \ {d} => Ahead(fr, c, i) \subseteq D[d] \cup {0}

\* Each open block of the checker's walk is a frame of the generator, and each
\* frame that is not that of an `elseif' is such a block.
Aligned(fr, w, h) ==
    /\ h \in [1 .. Len(w) -> 1 .. Len(fr)]
    /\ \A i, j \in 1 .. Len(w) : i < j => h[i] < h[j]
    /\ \A i \in 1 .. Len(w) : fr[h[i]].kind = w[i]
    /\ \A k \in 1 .. Len(fr) : fr[k].kind # "elseif" => \E i \in 1 .. Len(w) : h[i] = k

\* A name declared in the lth open block is live: what is ahead of that block
\* is in the region of the name's alloca.
Live(fr, c, D, n, nv, decl, h) ==
    \A l \in Nat, x \in Names : <<l, x>> \in decl =>
        nv[x] \in 1 .. n /\ Ahead(fr, c, h[l]) \subseteq D[nv[x]] \cup {0}

Alike(fr, gr) ==
    /\ Len(gr) = Len(fr)
    /\ \A i \in 1 .. Len(fr) : /\ gr[i].kind = fr[i].kind /\ gr[i].body = fr[i].body
                               /\ gr[i].els = fr[i].els /\ gr[i].end = fr[i].end

LEMMA InAhead ==
    ASSUME NEW fr, NEW c, NEW i
    PROVE  \A b : b \in Ahead(fr, c, i) <=>
               b = c \/ \E j \in (i + 1) .. Len(fr) : b = fr[j].end \/ b = fr[j].els
BY DEF Ahead

LEMMA EndsAhead ==
    ASSUME NEW fr, NEW c, NEW i, NEW j \in (i + 1) .. Len(fr)
    PROVE  fr[j].end \in Ahead(fr, c, i) /\ fr[j].els \in Ahead(fr, c, i)
BY DEF Ahead

LEMMA AlikeAhead ==
    ASSUME NEW fr, NEW gr, Alike(fr, gr), Len(fr) \in Nat, NEW c, NEW i \in Nat
    PROVE  Ahead(gr, c, i) = Ahead(fr, c, i)
<1>1. \A j \in (i + 1) .. Len(fr) : gr[j].end = fr[j].end /\ gr[j].els = fr[j].els
  BY DEF Alike
<1>2. Len(gr) = Len(fr)
  BY DEF Alike
<1>3. \A b : b \in Ahead(gr, c, i) <=> b \in Ahead(fr, c, i)
  BY <1>1, <1>2, InAhead
<1>4. QED
  BY <1>3

LEMMA ChainAlike ==
    ASSUME NEW fr, NEW gr, Alike(fr, gr), Len(fr) \in Nat, NEW c, NEW D, NEW n,
           Chain(fr, c, D, n)
    PROVE  Chain(gr, c, D, n)
<1>1. \A i \in 1 .. Len(fr) : Ahead(gr, c, i) = Ahead(fr, c, i)
  BY AlikeAhead
<1>2. Len(gr) = Len(fr)
  BY DEF Alike
<1>3. ASSUME NEW i \in 1 .. Len(gr)
      PROVE  /\ gr[i].end \in 0 .. n /\ gr[i].els \in 0 .. n /\ gr[i].body \in 0 .. n
             /\ \A d \in 1 .. n :
                  /\ gr[i].end \in D[d] \ {d} =>
                       Ahead(gr, c, i) \cup {gr[i].els} \subseteq D[d] \cup {0}
                  /\ gr[i].body \in D[d] \ {d} => Ahead(gr, c, i) \subseteq D[d] \cup {0}
  <2>1. i \in 1 .. Len(fr)
    BY <1>2
  <2>2. gr[i].body = fr[i].body /\ gr[i].els = fr[i].els /\ gr[i].end = fr[i].end
    BY <2>1 DEF Alike
  <2>3. Ahead(gr, c, i) = Ahead(fr, c, i)
    BY <1>1, <2>1
  <2>4. QED
    BY <2>1, <2>2, <2>3 DEF Chain
<1>4. QED
  BY <1>3 DEF Chain

LEMMA AlignedAlike ==
    ASSUME NEW fr, NEW gr, Alike(fr, gr), NEW w, NEW h, Aligned(fr, w, h)
    PROVE  Aligned(gr, w, h)
BY DEF Alike, Aligned

\* What is appended to the frames, and what is left below the last.
LEMMA FramesAppend ==
    ASSUME NEW fr \in Seq(CGP!FrameType), NEW f \in CGP!FrameType, NEW gr, gr = Append(fr, f)
    PROVE  /\ gr \in Seq(CGP!FrameType) /\ Len(gr) = Len(fr) + 1 /\ Len(fr) \in Nat
           /\ gr[Len(fr) + 1] = f
           /\ \A i \in 1 .. Len(fr) : gr[i] = fr[i]
OBVIOUS

\* The builder's way from outside the kth frame: what is ahead was ahead, or is new.
Onward(fr, c, gr, c2, k, n, m) ==
    \A i \in 0 .. k : Ahead(gr, c2, i) \subseteq Ahead(fr, c, i) \cup {0} \cup ((n + 1) .. m)

\* A frame whose blocks are new.
Fresh(f, n, m) ==
    /\ f.end \in (n + 1) .. m
    /\ f.els \in {0} \cup ((n + 1) .. m)
    /\ f.body \in {0} \cup ((n + 1) .. m)

\* Opening a statement with blocks of its own at the builder's position c.
LEMMA ChainPush ==
    ASSUME NEW n \in Nat, NEW m \in Nat, n <= m, NEW D \in [1 .. n -> SUBSET (1 .. n)],
           NEW c \in 1 .. n, NEW G, GrownFrom(D, n, m, c, G),
           NEW fr \in Seq(CGP!FrameType), Chain(fr, c, D, n),
           NEW f \in CGP!FrameType, Fresh(f, n, m),
           NEW c2 \in (n + 1) .. m, NEW gr, gr = Append(fr, f)
    PROVE  /\ Chain(gr, c2, G, m)
           /\ Onward(fr, c, gr, c2, Len(fr), n, m)
<1>0. /\ f.end \in (n + 1) .. m
      /\ f.els \in {0} \cup ((n + 1) .. m)
      /\ f.body \in {0} \cup ((n + 1) .. m)
  BY DEF Fresh
<1>1. /\ gr \in Seq(CGP!FrameType) /\ Len(gr) = Len(fr) + 1 /\ Len(fr) \in Nat
      /\ gr[Len(fr) + 1] = f
      /\ \A i \in 1 .. Len(fr) : gr[i] = fr[i]
  BY FramesAppend
<1>2. ASSUME NEW i \in 0 .. Len(fr)
      PROVE  /\ c \in Ahead(fr, c, i)
             /\ Ahead(gr, c2, i) \subseteq Ahead(fr, c, i) \cup {0} \cup ((n + 1) .. m)
  <2>1. ASSUME NEW b \in Ahead(gr, c2, i)
        PROVE  b \in Ahead(fr, c, i) \cup {0} \cup ((n + 1) .. m)
    <3>1. b = c2 \/ \E j \in (i + 1) .. Len(gr) : b = gr[j].end \/ b = gr[j].els
      BY <2>1 DEF Ahead
    <3>2. CASE b = c2
      BY <3>2
    <3>3. ASSUME NEW j \in (i + 1) .. Len(gr), b = gr[j].end \/ b = gr[j].els
          PROVE  b \in Ahead(fr, c, i) \cup {0} \cup ((n + 1) .. m)
      <4>1. CASE j = Len(fr) + 1
        BY <1>0, <1>1, <3>3, <4>1
      <4>2. CASE j \in (i + 1) .. Len(fr)
        <5>1. gr[j] = fr[j]
          BY <1>1, <4>2
        <5>2. b = fr[j].end \/ b = fr[j].els
          BY <3>3, <5>1
        <5>3. fr[j].end \in Ahead(fr, c, i) /\ fr[j].els \in Ahead(fr, c, i)
          BY <4>2, EndsAhead
        <5>4. QED
          BY <5>2, <5>3
      <4>3. j = Len(fr) + 1 \/ j \in (i + 1) .. Len(fr)
        BY <1>1
      <4>4. QED
        BY <4>1, <4>2, <4>3
    <3>4. QED
      BY <3>1, <3>2, <3>3
  <2>2. c \in Ahead(fr, c, i)
    BY InAhead
  <2>3. QED
    BY <2>1, <2>2
<1>3. ASSUME NEW i \in 1 .. Len(fr), NEW d \in 1 .. n, NEW b \in {fr[i].end, fr[i].body}, b \in G[d] \ {d}
      PROVE  b \in D[d] \ {d}
  BY <1>3 DEF GrownFrom, Chain
<1>4. ASSUME NEW i \in 0 .. Len(fr), NEW d \in 1 .. n, Ahead(fr, c, i) \subseteq D[d] \cup {0}
      PROVE  Ahead(gr, c2, i) \subseteq G[d] \cup {0}
  <2>1. c \in D[d]
    BY <1>2, <1>4
  <2>2. (n + 1) .. m \subseteq G[d] /\ D[d] \subseteq G[d]
    BY <2>1 DEF GrownFrom
  <2>3. QED
    BY <1>2, <1>4, <2>2
<1>5. ASSUME NEW i \in 1 .. Len(fr), NEW d \in 1 .. m
      PROVE  /\ gr[i].end \in G[d] \ {d} =>
                  Ahead(gr, c2, i) \cup {gr[i].els} \subseteq G[d] \cup {0}
             /\ gr[i].body \in G[d] \ {d} => Ahead(gr, c2, i) \subseteq G[d] \cup {0}
  <2>0. gr[i] = fr[i] /\ i \in 0 .. Len(fr)
    BY <1>1
  <2>1. CASE d \in (n + 1) .. m
    BY <2>0, <2>1 DEF GrownFrom, Chain
  <2>2. CASE d \in 1 .. n
    <3>1. ASSUME fr[i].end \in G[d] \ {d}
          PROVE  Ahead(gr, c2, i) \cup {fr[i].els} \subseteq G[d] \cup {0}
      <4>1. fr[i].end \in D[d] \ {d}
        BY <1>3, <2>2, <3>1
      <4>2. Ahead(fr, c, i) \cup {fr[i].els} \subseteq D[d] \cup {0}
        BY <2>2, <4>1 DEF Chain
      <4>3. D[d] \subseteq G[d]
        BY <2>2 DEF GrownFrom
      <4>4. QED
        BY <1>4, <2>0, <2>2, <4>2, <4>3
    <3>2. ASSUME fr[i].body \in G[d] \ {d}
          PROVE  Ahead(gr, c2, i) \subseteq G[d] \cup {0}
      <4>1. fr[i].body \in D[d] \ {d}
        BY <1>3, <2>2, <3>2
      <4>2. Ahead(fr, c, i) \subseteq D[d] \cup {0}
        BY <2>2, <4>1 DEF Chain
      <4>3. QED
        BY <1>4, <2>0, <2>2, <4>2
    <3>3. QED
      BY <2>0, <3>1, <3>2
  <2>3. QED
    BY <2>1, <2>2
<1>6. ASSUME NEW d \in 1 .. m, f.end \in G[d] \ {d} \/ f.body \in G[d] \ {d}
      PROVE  Ahead(gr, c2, Len(fr) + 1) \cup {f.els} \subseteq G[d] \cup {0}
  <2>1. d \in 1 .. n
    BY <1>0, <1>6 DEF GrownFrom
  <2>2. c \in D[d]
    BY <1>0, <1>6, <2>1 DEF GrownFrom
  <2>3. (n + 1) .. m \subseteq G[d]
    BY <2>1, <2>2 DEF GrownFrom
  <2>4. Ahead(gr, c2, Len(fr) + 1) \subseteq {c2}
    BY <1>1 DEF Ahead
  <2>5. QED
    BY <1>0, <2>3, <2>4
<1>7. \A i \in 1 .. Len(gr) : gr[i].end \in 0 .. m /\ gr[i].els \in 0 .. m /\ gr[i].body \in 0 .. m
  <2>1. \A i \in 1 .. Len(fr) : gr[i].end \in 0 .. m /\ gr[i].els \in 0 .. m /\ gr[i].body \in 0 .. m
    BY <1>1 DEF Chain
  <2>2. f.end \in 0 .. m /\ f.els \in 0 .. m /\ f.body \in 0 .. m
    BY <1>0
  <2>3. QED
    BY <1>1, <2>1, <2>2
<1>8. Chain(gr, c2, G, m)
  <2>1. \A i \in 1 .. Len(gr) : i \in 1 .. Len(fr) \/ i = Len(fr) + 1
    BY <1>1
  <2>2. \A i \in 1 .. Len(gr), d \in 1 .. m :
             /\ gr[i].end \in G[d] \ {d} =>
                  Ahead(gr, c2, i) \cup {gr[i].els} \subseteq G[d] \cup {0}
             /\ gr[i].body \in G[d] \ {d} => Ahead(gr, c2, i) \subseteq G[d] \cup {0}
    BY <1>1, <1>5, <1>6, <2>1
  <2>3. QED
    BY <1>7, <2>2 DEF Chain
<1>9. QED
  BY <1>2, <1>8 DEF Onward

\* The last frame goes: the builder continues at its end or its else block,
\* which were ahead.
LEMMA AheadPopped ==
    ASSUME NEW fr \in Seq(CGP!FrameType), fr # << >>, NEW gr, gr = Popped(fr), NEW c,
           NEW c2 \in {fr[Len(fr)].end, fr[Len(fr)].els}, NEW i \in 0 .. Len(fr) - 1
    PROVE  Ahead(gr, c2, i) \subseteq Ahead(fr, c, i)
<1>1. /\ gr \in Seq(CGP!FrameType) /\ Len(gr) = Len(fr) - 1
      /\ \A j \in 1 .. Len(fr) - 1 : gr[j] = fr[j]
      /\ Len(fr) \in Nat \ {0}
  BY LastFacts
<1>2. ASSUME NEW b \in Ahead(gr, c2, i)
      PROVE  b \in Ahead(fr, c, i)
  <2>1. b = c2 \/ \E j \in (i + 1) .. Len(gr) : b = gr[j].end \/ b = gr[j].els
    BY <1>2 DEF Ahead
  <2>2. CASE b = c2
    <3>1. Len(fr) \in (i + 1) .. Len(fr)
      BY <1>1
    <3>2. fr[Len(fr)].end \in Ahead(fr, c, i) /\ fr[Len(fr)].els \in Ahead(fr, c, i)
      BY <3>1, EndsAhead
    <3>3. QED
      BY <2>2, <3>2
  <2>3. ASSUME NEW j \in (i + 1) .. Len(gr), b = gr[j].end \/ b = gr[j].els
        PROVE  b \in Ahead(fr, c, i)
    <3>1. j \in (i + 1) .. Len(fr) /\ gr[j] = fr[j]
      BY <1>1
    <3>2. fr[j].end \in Ahead(fr, c, i) /\ fr[j].els \in Ahead(fr, c, i)
      BY <3>1, EndsAhead
    <3>3. QED
      BY <2>3, <3>1, <3>2
  <2>4. QED
    BY <2>1, <2>2, <2>3
<1>3. QED
  BY <1>2

LEMMA ChainPop ==
    ASSUME NEW n \in Nat, NEW D, NEW c, NEW fr \in Seq(CGP!FrameType), fr # << >>,
           Chain(fr, c, D, n), NEW c2 \in {fr[Len(fr)].end, fr[Len(fr)].els},
           NEW gr, gr = Popped(fr)
    PROVE  Chain(gr, c2, D, n)
<1>1. /\ gr \in Seq(CGP!FrameType) /\ Len(gr) = Len(fr) - 1
      /\ \A j \in 1 .. Len(fr) - 1 : gr[j] = fr[j]
      /\ Len(fr) \in Nat \ {0}
  BY LastFacts
<1>2. ASSUME NEW i \in 1 .. Len(gr)
      PROVE  /\ gr[i].end \in 0 .. n /\ gr[i].els \in 0 .. n /\ gr[i].body \in 0 .. n
             /\ \A d \in 1 .. n :
                   /\ gr[i].end \in D[d] \ {d} =>
                         Ahead(gr, c2, i) \cup {gr[i].els} \subseteq D[d] \cup {0}
                   /\ gr[i].body \in D[d] \ {d} => Ahead(gr, c2, i) \subseteq D[d] \cup {0}
  <2>1. i \in 0 .. Len(fr) - 1 /\ i \in 1 .. Len(fr) /\ gr[i] = fr[i]
    BY <1>1
  <2>2. Ahead(gr, c2, i) \subseteq Ahead(fr, c, i)
    BY <2>1, AheadPopped
  <2>3. QED
    BY <2>1, <2>2 DEF Chain
<1>3. QED
  BY <1>2 DEF Chain

\* The last frame gives way to one with the same end and nothing between, and
\* the builder continues at its else block.

\* No region holds block 0: there is none.
ZeroFree(D, n) == \A d \in 1 .. n : 0 \notin D[d]

LEMMA ChainTurn ==
    ASSUME NEW n \in Nat, NEW D, NEW c, NEW fr \in Seq(CGP!FrameType), fr # << >>,
           Chain(fr, c, D, n), NEW f \in CGP!FrameType, f.end = fr[Len(fr)].end,
           f.els = 0, f.body = 0, ZeroFree(D, n),
           NEW c2, c2 = fr[Len(fr)].els, NEW us, us = Popped(fr), NEW gr, gr = Append(us, f)
    PROVE  /\ Chain(gr, c2, D, n)
           /\ Onward(fr, c, gr, c2, Len(fr) - 1, n, n)
<1>2. /\ us \in Seq(CGP!FrameType) /\ Len(us) = Len(fr) - 1
      /\ \A j \in 1 .. Len(fr) - 1 : us[j] = fr[j]
      /\ Len(fr) \in Nat \ {0}
  BY LastFacts
<1>3. /\ gr \in Seq(CGP!FrameType) /\ Len(gr) = Len(fr)
      /\ gr[Len(fr)] = f
      /\ \A j \in 1 .. Len(fr) - 1 : gr[j] = fr[j]
  <2>2. /\ gr \in Seq(CGP!FrameType) /\ Len(gr) = Len(us) + 1
        /\ gr[Len(us) + 1] = f
        /\ \A i \in 1 .. Len(us) : gr[i] = us[i]
    BY <1>2, FramesAppend
  <2>3. QED
    BY <1>2, <2>2
<1>4. ASSUME NEW i \in 0 .. Len(fr) - 1, NEW b \in Ahead(gr, c2, i)
      PROVE  b \in Ahead(fr, c, i) \cup {0}
  <2>1. b = c2 \/ \E j \in (i + 1) .. Len(gr) : b = gr[j].end \/ b = gr[j].els
    BY <1>4 DEF Ahead
  <2>2. Len(fr) \in (i + 1) .. Len(fr)
    BY <1>2
  <2>3. fr[Len(fr)].end \in Ahead(fr, c, i) /\ fr[Len(fr)].els \in Ahead(fr, c, i)
    BY <2>2, EndsAhead
  <2>4. CASE b = c2
    BY <2>3, <2>4
  <2>5. ASSUME NEW j \in (i + 1) .. Len(gr), b = gr[j].end \/ b = gr[j].els
        PROVE  b \in Ahead(fr, c, i) \cup {0}
    <3>1. CASE j = Len(fr)
      BY <1>3, <2>3, <2>5, <3>1
    <3>2. CASE j \in (i + 1) .. Len(fr) - 1
      <4>1. gr[j] = fr[j] /\ j \in (i + 1) .. Len(fr)
        BY <1>2, <1>3, <3>2
      <4>2. fr[j].end \in Ahead(fr, c, i) /\ fr[j].els \in Ahead(fr, c, i)
        BY <4>1, EndsAhead
      <4>3. QED
        BY <2>5, <4>1, <4>2
    <3>3. j = Len(fr) \/ j \in (i + 1) .. Len(fr) - 1
      BY <1>2, <1>3
    <3>4. QED
      BY <3>1, <3>2, <3>3
  <2>6. QED
    BY <2>1, <2>4, <2>5
<1>5. \A i \in 0 .. Len(fr) - 1 : Ahead(gr, c2, i) \subseteq Ahead(fr, c, i) \cup {0}
  BY <1>4
<1>6. \A i \in 1 .. Len(fr) : gr[i].end \in 0 .. n /\ gr[i].els \in 0 .. n /\ gr[i].body \in 0 .. n
  <2>1. \A i \in 1 .. Len(fr) : i = Len(fr) \/ i \in 1 .. Len(fr) - 1
    BY <1>2
  <2>2. fr[Len(fr)].end \in 0 .. n
    BY <1>2 DEF Chain
  <2>3. \A i \in 1 .. Len(fr) - 1 :
           fr[i].end \in 0 .. n /\ fr[i].els \in 0 .. n /\ fr[i].body \in 0 .. n
    BY <1>2 DEF Chain
  <2>4. \A i \in 1 .. Len(fr) - 1 :
           gr[i].end \in 0 .. n /\ gr[i].els \in 0 .. n /\ gr[i].body \in 0 .. n
    BY <1>3, <2>3
  <2>5. f.end \in 0 .. n /\ f.els \in 0 .. n /\ f.body \in 0 .. n
    BY <2>2
  <2>6. QED
    BY <1>3, <2>1, <2>4, <2>5
<1>7. ASSUME NEW i \in 1 .. Len(fr), NEW d \in 1 .. n
      PROVE  /\ gr[i].end \in D[d] \ {d} =>
                   Ahead(gr, c2, i) \cup {gr[i].els} \subseteq D[d] \cup {0}
             /\ gr[i].body \in D[d] \ {d} => Ahead(gr, c2, i) \subseteq D[d] \cup {0}
  <2>0. 0 \notin D[d]
    BY DEF ZeroFree
  <2>1. CASE i \in 1 .. Len(fr) - 1
    BY <1>3, <1>5, <2>0, <2>1 DEF Chain
  <2>2. CASE i = Len(fr)
    <3>1. Ahead(gr, c2, i) \subseteq {c2}
      BY <1>2, <1>3, <2>2 DEF Ahead
    <3>2. fr[i].end \in D[d] \ {d} => c2 \in D[d] \cup {0}
      BY <2>2 DEF Chain
    <3>3. gr[i].end = fr[i].end /\ gr[i].els = 0 /\ gr[i].body = 0
      BY <1>3, <2>2
    <3>4. QED
      BY <2>0, <3>1, <3>2, <3>3
  <2>3. i = Len(fr) \/ i \in 1 .. Len(fr) - 1
    BY <1>2
  <2>4. QED
    BY <2>1, <2>2, <2>3
<1>8. Chain(gr, c2, D, n)
  BY <1>3, <1>6, <1>7 DEF Chain
<1>9. QED
  BY <1>5, <1>8 DEF Onward

\* What is live stays live, if the builder only goes where it was to go or to
\* blocks created at a place that was ahead.
LEMMA LiveMoves ==
    ASSUME NEW n \in Nat, NEW m \in Nat, n <= m, NEW D, NEW at \in 1 .. n, NEW G,
           GrownFrom(D, n, m, at, G), NEW fr, NEW c, NEW gr, NEW c2, NEW nv,
           NEW decl, NEW decl2, NEW h, NEW g, Live(fr, c, D, n, nv, decl, h),
           \A l \in Nat, x \in Names : <<l, x>> \in decl2 =>
               /\ <<l, x>> \in decl
               /\ at \in Ahead(fr, c, h[l])
               /\ Ahead(gr, c2, g[l]) \subseteq Ahead(fr, c, h[l]) \cup {0} \cup ((n + 1) .. m)
    PROVE  Live(gr, c2, G, m, nv, decl2, g)
<1>1. ASSUME NEW l \in Nat, NEW x \in Names, <<l, x>> \in decl2
      PROVE  nv[x] \in 1 .. m /\ Ahead(gr, c2, g[l]) \subseteq G[nv[x]] \cup {0}
  <2>1. nv[x] \in 1 .. n /\ Ahead(fr, c, h[l]) \subseteq D[nv[x]] \cup {0}
    BY <1>1 DEF Live
  <2>2. at \in D[nv[x]]
    BY <1>1, <2>1
  <2>3. (n + 1) .. m \subseteq G[nv[x]] /\ D[nv[x]] \subseteq G[nv[x]]
    BY <2>1, <2>2 DEF GrownFrom
  <2>4. QED
    BY <1>1, <2>1, <2>3
<1>2. QED
  BY <1>1 DEF Live

\* Without new blocks the regions are what they were.
LEMMA GrownNone ==
    ASSUME NEW n \in Nat, NEW D \in [1 .. n -> SUBSET (1 .. n)], NEW at, NEW G, GrownFrom(D, n, n, at, G)
    PROVE  G = D
<1>1. \A d \in 1 .. n : G[d] = D[d]
  BY DEF GrownFrom
<1>2. G \in [1 .. n -> SUBSET (1 .. n)]
  BY DEF GrownFrom
<1>3. QED
  BY ONLY <1>1, <1>2, D \in [1 .. n -> SUBSET (1 .. n)]

(***************************************************************************)
(* The walk and the frames, as blocks open and close.                      *)
(***************************************************************************)
LEMMA NoElseIfBlock == "elseif" \notin TC!Blocks
BY DEF TC!Blocks, TC!ThenBlocks

LEMMA AlignedFacts ==
    ASSUME NEW fr \in Seq(CGP!FrameType), NEW w \in Seq(TC!Blocks), NEW h, Aligned(fr, w, h)
    PROVE  /\ Len(w) \in Nat /\ Len(fr) \in Nat
           /\ \A i \in 1 .. Len(w) : h[i] \in 1 .. Len(fr) /\ fr[h[i]].kind # "elseif"
           /\ \A i \in 1 .. Len(w) - 1 : h[i] \in 1 .. Len(fr) - 1
           /\ fr # << >> /\ fr[Len(fr)].kind # "elseif" => w # << >> /\ h[Len(w)] = Len(fr)
<1>1. /\ Len(w) \in Nat /\ Len(fr) \in Nat
      /\ \A i \in 1 .. Len(w) : h[i] \in 1 .. Len(fr) /\ fr[h[i]].kind # "elseif"
  <2>1. /\ h \in [1 .. Len(w) -> 1 .. Len(fr)]
        /\ \A i \in 1 .. Len(w) : fr[h[i]].kind = w[i]
    BY DEF Aligned
  <2>2. \A i \in 1 .. Len(w) : w[i] \in TC!Blocks
    OBVIOUS
  <2>3. \A i \in 1 .. Len(w) : fr[h[i]].kind # "elseif"
    BY ONLY <2>1, <2>2, NoElseIfBlock
  <2>4. Len(w) \in Nat /\ Len(fr) \in Nat
    OBVIOUS
  <2>5. QED
    BY ONLY <2>1, <2>3, <2>4
<1>2. ASSUME NEW i \in 1 .. Len(w) - 1
      PROVE  h[i] \in 1 .. Len(fr) - 1
  <2>1. i \in 1 .. Len(w) /\ Len(w) \in 1 .. Len(w) /\ i < Len(w)
    BY <1>1
  <2>2. h[i] < h[Len(w)]
    BY <2>1 DEF Aligned
  <2>3. QED
    BY <1>1, <2>1, <2>2
<1>3. ASSUME fr # << >>, fr[Len(fr)].kind # "elseif"
      PROVE  w # << >> /\ h[Len(w)] = Len(fr)
  <2>1. Len(fr) \in 1 .. Len(fr)
    BY <1>1, <1>3
  <2>2. PICK i \in 1 .. Len(w) : h[i] = Len(fr)
    BY <1>3, <2>1 DEF Aligned
  <2>3. i = Len(w)
    BY <1>1, <1>2, <2>2
  <2>4. QED
    BY <1>1, <2>2, <2>3
<1>4. QED
  BY <1>1, <1>2, <1>3

\* Aligned as h has it, up to block n.
Aligns(gr, v, h, n) == \E g : Aligned(gr, v, g) /\ \A l \in 1 .. n : g[l] = h[l]

LEMMA AlignedPush ==
    ASSUME NEW fr \in Seq(CGP!FrameType), NEW w \in Seq(TC!Blocks), NEW h, Aligned(fr, w, h),
           NEW f \in CGP!FrameType, f.kind \in TC!Blocks, NEW k, k = f.kind,
           NEW gr, gr = Append(fr, f), NEW v, v = Append(w, k)
    PROVE  Aligns(gr, v, h, Len(w))
<1>2. /\ Len(w) \in Nat /\ Len(fr) \in Nat /\ v \in Seq(TC!Blocks) /\ Len(v) = Len(w) + 1
      /\ \A i \in 1 .. Len(w) : v[i] = w[i]
      /\ v[Len(w) + 1] = k
  OBVIOUS
<1>3. /\ Len(gr) = Len(fr) + 1 /\ gr[Len(fr) + 1] = f
      /\ \A i \in 1 .. Len(fr) : gr[i] = fr[i]
  BY FramesAppend
<1>4. PICK g : g = [i \in 1 .. Len(w) + 1 |-> IF i = Len(w) + 1 THEN Len(fr) + 1 ELSE h[i]]
  OBVIOUS
<1>5. /\ \A l \in 1 .. Len(w) : g[l] = h[l] /\ h[l] \in 1 .. Len(fr) /\ l \in 1 .. Len(w) + 1
      /\ g[Len(w) + 1] = Len(fr) + 1
      /\ g \in [1 .. Len(w) + 1 -> 1 .. Len(fr) + 1]
  <2>0. h \in [1 .. Len(w) -> 1 .. Len(fr)]
    BY DEF Aligned
  <2>1. \A l \in 1 .. Len(w) : h[l] \in 1 .. Len(fr) /\ h[l] \in 1 .. Len(fr) + 1
    BY <1>2, <2>0
  <2>2. \A l \in 1 .. Len(w) : l \in 1 .. Len(w) + 1 /\ l # Len(w) + 1
    BY <1>2
  <2>3. \A l \in 1 .. Len(w) + 1 : l = Len(w) + 1 \/ l \in 1 .. Len(w)
    BY <1>2
  <2>4. Len(w) + 1 \in 1 .. Len(w) + 1 /\ Len(fr) + 1 \in 1 .. Len(fr) + 1
    BY <1>2
  <2>5. \A l \in 1 .. Len(w) + 1 : g[l] = IF l = Len(w) + 1 THEN Len(fr) + 1 ELSE h[l]
    BY <1>4
  <2>6. \A l \in 1 .. Len(w) : g[l] = h[l]
    BY <2>2, <2>5
  <2>7. g[Len(w) + 1] = Len(fr) + 1
    BY <2>4, <2>5
  <2>8. \A l \in 1 .. Len(w) + 1 : g[l] \in 1 .. Len(fr) + 1
    BY <2>1, <2>3, <2>4, <2>6, <2>7
  <2>9. g = [l \in 1 .. Len(w) + 1 |-> g[l]]
    BY <1>4
  <2>10. QED
    BY <2>1, <2>2, <2>6, <2>7, <2>8, <2>9
<1>6. \A i \in 1 .. Len(v) : i = Len(w) + 1 \/ i \in 1 .. Len(w)
  BY <1>2
<1>7. ASSUME NEW i \in 1 .. Len(v), NEW j \in 1 .. Len(v), i < j
      PROVE  g[i] < g[j]
  <2>0. i \in Nat /\ j \in Nat /\ j <= Len(w) + 1 /\ 1 <= i
    BY <1>2
  <2>1. i \in 1 .. Len(w)
    BY <1>2, <1>7, <2>0
  <2>2. CASE j = Len(w) + 1
    <3>1. g[i] = h[i] /\ h[i] \in 1 .. Len(fr)
      BY <1>5, <2>1
    <3>2. g[j] = Len(fr) + 1
      BY <1>5, <2>2
    <3>3. QED
      BY <1>2, <3>1, <3>2
  <2>3. CASE j \in 1 .. Len(w)
    <3>1. h[i] < h[j]
      BY <1>7, <2>1, <2>3 DEF Aligned
    <3>2. QED
      BY <1>5, <2>1, <2>3, <3>1
  <2>4. QED
    BY <1>6, <2>2, <2>3
<1>8. \A i \in 1 .. Len(v) : gr[g[i]].kind = v[i]
  BY <1>2, <1>3, <1>5, <1>6 DEF Aligned
<1>9. ASSUME NEW j \in 1 .. Len(gr), gr[j].kind # "elseif"
      PROVE  \E i \in 1 .. Len(v) : g[i] = j
  <2>1. CASE j = Len(fr) + 1
    <3>1. Len(w) + 1 \in 1 .. Len(v)
      BY <1>2
    <3>2. QED
      BY <1>5, <2>1, <3>1
  <2>2. CASE j \in 1 .. Len(fr)
    <3>1. fr[j].kind # "elseif"
      BY <1>3, <1>9, <2>2
    <3>2. PICK i \in 1 .. Len(w) : h[i] = j
      BY <2>2, <3>1 DEF Aligned
    <3>3. i \in 1 .. Len(v)
      BY <1>2
    <3>4. QED
      BY <1>5, <3>2, <3>3
  <2>3. QED
    BY <1>2, <1>3, <2>1, <2>2
<1>10. Aligned(gr, v, g)
  BY <1>2, <1>3, <1>5, <1>7, <1>8, <1>9 DEF Aligned
<1>11. QED
  BY <1>5, <1>10 DEF Aligns

LEMMA AlignedSkip ==
    ASSUME NEW fr \in Seq(CGP!FrameType), NEW w \in Seq(TC!Blocks), NEW h, Aligned(fr, w, h),
           NEW f \in CGP!FrameType, f.kind = "elseif", NEW gr, gr = Append(fr, f)
    PROVE  Aligned(gr, w, h)
<1>1. /\ Len(gr) = Len(fr) + 1 /\ gr[Len(fr) + 1] = f
      /\ \A i \in 1 .. Len(fr) : gr[i] = fr[i]
      /\ Len(fr) \in Nat
  BY FramesAppend
<1>2. \A j \in 1 .. Len(gr) : j = Len(fr) + 1 \/ j \in 1 .. Len(fr)
  BY <1>1
<1>3. h \in [1 .. Len(w) -> 1 .. Len(gr)]
  BY <1>1 DEF Aligned
<1>4. \A i \in 1 .. Len(w) : gr[h[i]].kind = w[i]
  BY <1>1 DEF Aligned
<1>5. \A j \in 1 .. Len(gr) : gr[j].kind # "elseif" => \E i \in 1 .. Len(w) : h[i] = j
  BY <1>1, <1>2 DEF Aligned
<1>6. QED
  BY <1>3, <1>4, <1>5 DEF Aligned

LEMMA AlignedUnskip ==
    ASSUME NEW fr \in Seq(CGP!FrameType), NEW w \in Seq(TC!Blocks), NEW h, Aligned(fr, w, h),
           fr # << >>, fr[Len(fr)].kind = "elseif", NEW gr, gr = Popped(fr)
    PROVE  /\ Aligned(gr, w, h)
           /\ \A i \in 1 .. Len(w) : h[i] \in 1 .. Len(fr) - 1
<1>1. /\ Len(gr) = Len(fr) - 1 /\ Len(fr) \in Nat \ {0}
      /\ \A i \in 1 .. Len(fr) - 1 : gr[i] = fr[i]
  BY LastFacts
<1>2. \A i \in 1 .. Len(w) : h[i] \in 1 .. Len(fr) - 1
  <2>1. \A i \in 1 .. Len(w) : h[i] \in 1 .. Len(fr) /\ h[i] # Len(fr)
    BY AlignedFacts
  <2>2. QED
    BY <1>1, <2>1
<1>3. h \in [1 .. Len(w) -> 1 .. Len(gr)]
  BY <1>1, <1>2 DEF Aligned
<1>4. \A i \in 1 .. Len(w) : gr[h[i]].kind = w[i]
  BY <1>1, <1>2 DEF Aligned
<1>5. \A j \in 1 .. Len(gr) : gr[j].kind # "elseif" => \E i \in 1 .. Len(w) : h[i] = j
  BY <1>1 DEF Aligned
<1>6. QED
  BY <1>2, <1>3, <1>4, <1>5 DEF Aligned

LEMMA AlignedPop ==
    ASSUME NEW fr \in Seq(CGP!FrameType), NEW w \in Seq(TC!Blocks), NEW h, Aligned(fr, w, h),
           fr # << >>, fr[Len(fr)].kind # "elseif", NEW gr, gr = Popped(fr),
           NEW v, v = Popped(w)
    PROVE  Aligns(gr, v, h, Len(w) - 1)
<1>1. /\ Len(gr) = Len(fr) - 1 /\ Len(fr) \in Nat \ {0}
      /\ \A i \in 1 .. Len(fr) - 1 : gr[i] = fr[i]
  BY LastFacts
<1>2. /\ w # << >> /\ h[Len(w)] = Len(fr)
      /\ \A i \in 1 .. Len(w) - 1 : h[i] \in 1 .. Len(fr) - 1
  BY AlignedFacts
<1>4. /\ Len(v) = Len(w) - 1 /\ Len(w) \in Nat \ {0}
      /\ \A i \in 1 .. Len(w) - 1 : v[i] = w[i]
  BY <1>2, LastFacts
<1>5. PICK g : g = [i \in 1 .. Len(w) - 1 |-> h[i]]
  OBVIOUS
<1>6. /\ \A i \in 1 .. Len(w) - 1 : g[i] = h[i] /\ i \in 1 .. Len(w)
      /\ g \in [1 .. Len(v) -> 1 .. Len(gr)]
  BY <1>1, <1>2, <1>4, <1>5
<1>7. \A i, j \in 1 .. Len(v) : i < j => g[i] < g[j]
  BY <1>4, <1>6 DEF Aligned
<1>8. ASSUME NEW i \in 1 .. Len(v)
      PROVE  gr[g[i]].kind = v[i]
  <2>1. i \in 1 .. Len(w) - 1 /\ i \in 1 .. Len(w)
    BY <1>4
  <2>2. g[i] = h[i] /\ v[i] = w[i] /\ fr[h[i]].kind = w[i]
    BY <1>4, <1>6, <2>1 DEF Aligned
  <2>3. h[i] \in 1 .. Len(fr) - 1
    BY <1>2, <2>1
  <2>4. gr[h[i]] = fr[h[i]]
    BY <1>1, <2>3
  <2>5. QED
    BY <2>2, <2>4
<1>9. ASSUME NEW j \in 1 .. Len(gr), gr[j].kind # "elseif"
      PROVE  \E i \in 1 .. Len(v) : g[i] = j
  <2>1. j \in 1 .. Len(fr) - 1 /\ j \in 1 .. Len(fr) /\ fr[j].kind # "elseif"
    BY <1>1, <1>9
  <2>2. PICK i \in 1 .. Len(w) : h[i] = j
    BY <2>1 DEF Aligned
  <2>3. i # Len(w)
    BY <1>1, <1>2, <2>1, <2>2
  <2>4. i \in 1 .. Len(w) - 1
    BY <1>4, <2>3
  <2>5. QED
    BY <1>4, <1>6, <2>2, <2>4
<1>10. Aligned(gr, v, g)
  BY <1>6, <1>7, <1>8, <1>9 DEF Aligned
<1>11. QED
  BY <1>6, <1>10 DEF Aligns

(***************************************************************************)
(* What the generator's helpers do to the edges between blocks.            *)
(***************************************************************************)
LEMMA InsertEdges ==
    ASSUME NEW bs, NEW f \in Nat, CGP!BlocksOK(bs, f), NEW b \in 1 .. Len(bs), NEW t \in BOOLEAN,
           NEW targets, NEW cs, cs = CGP!Insert(bs, b, t, targets), NEW at \in 0 .. Len(bs),
           NEW E, \A d \in targets : <<b, d>> \in E
    PROVE  Changed(bs, cs, at, E) /\ Len(cs) = Len(bs)
<1> DEFINE new == [fn |-> bs[b].fn, term |-> t, torn |-> bs[b].torn \/ bs[b].term,
                   succ |-> bs[b].succ \cup targets]
<1>1. bs \in Seq(CGP!BlockType) /\ Len(bs) \in Nat
  BY DEF CGP!BlocksOK
<1>2. new.fn = bs[b].fn /\ new.succ = bs[b].succ \cup targets
  OBVIOUS
<1>3. cs = [bs EXCEPT ![b] = new]
  BY DEF CGP!Insert
<1> HIDE DEF new
<1>4. Len(cs) = Len(bs) /\ \A c \in 1 .. Len(bs) : cs[c] = IF c = b THEN new ELSE bs[c]
  BY <1>1, <1>3
<1>5. \A c \in 1 .. Len(bs) : \A d \in cs[c].succ : d \in bs[c].succ \/ <<c, d>> \in E
  BY <1>2, <1>4
<1>6. \A c \in 1 .. Len(bs) : cs[c].fn = bs[c].fn
  BY <1>2, <1>4
<1>7. (Len(bs) + 1) .. Len(cs) = {}
  BY <1>1, <1>4
<1>8. QED
  BY <1>1, <1>4, <1>5, <1>6, <1>7 DEF Changed

LEMMA BranchEdges ==
    ASSUME NEW bs, NEW f \in Nat, CGP!BlocksOK(bs, f), NEW b \in 1 .. Len(bs),
           NEW dest, NEW cs, cs = CGP!BrUnlessTerminated(bs, b, dest), NEW at \in 0 .. Len(bs)
    PROVE  Changed(bs, cs, at, {<<b, dest>>}) /\ Len(cs) = Len(bs)
<1>1. CASE bs[b].term
  <2>1. cs = bs /\ Len(bs) \in Nat
    BY <1>1 DEF CGP!BrUnlessTerminated, CGP!BlocksOK
  <2>2. (Len(bs) + 1) .. Len(cs) = {}
    BY <2>1
  <2>3. QED
    BY <2>1, <2>2 DEF Changed
<1>2. CASE ~bs[b].term
  <2>1. cs = CGP!Insert(bs, b, TRUE, {dest})
    BY <1>2 DEF CGP!BrUnlessTerminated, CGP!CreateBr
  <2>2. PICK ts, E : ts = {dest} /\ E = {<<b, dest>>}
    OBVIOUS
  <2>3. \A d \in ts : <<b, d>> \in E
    BY <2>2
  <2>4. PICK t \in BOOLEAN : t = TRUE
    OBVIOUS
  <2>a. cs = CGP!Insert(bs, b, t, ts)
    BY <2>1, <2>2, <2>4, Zenon
  <2>5. Changed(bs, cs, at, E) /\ Len(cs) = Len(bs)
    BY ONLY <2>3, <2>a, CGP!BlocksOK(bs, f), InsertEdges
  <2>6. QED
    BY <2>2, <2>5
<1>3. QED
  BY <1>1, <1>2

\* The edges of E are those from block at to the targets.
EdgesFrom(E, at, targets) ==
    (\A d \in targets : <<at, d>> \in E) /\ (\A s, d : <<s, d>> \in E => s = at /\ d \in targets)

LEMMA OpenEdges ==
    ASSUME NEW bs, NEW f \in Nat, CGP!BlocksOK(bs, f), NEW at \in 1 .. Len(bs),
           NEW size \in Nat, NEW ms, ms = CGP!More(bs, bs[at].fn, size),
           NEW t \in BOOLEAN,
           NEW targets, NEW cs, cs = CGP!Insert(ms, at, t, targets),
           NEW E, EdgesFrom(E, at, targets)
    PROVE  Changed(bs, cs, at, E) /\ Len(cs) = Len(bs) + size
<1>0. (\A d \in targets : <<at, d>> \in E) /\ \A s, d : <<s, d>> \in E => s = at
  BY DEF EdgesFrom
<1>1. PICK g : g = bs[at].fn
  OBVIOUS
<1>2. g \in 1 .. f /\ Len(bs) \in Nat /\ bs \in Seq(CGP!BlockType)
  BY <1>1 DEF CGP!BlocksOK
<1>3. CGP!Grown(bs, ms, f, g, size)
  BY <1>1, <1>2, GeneratorAssumption, CGP!MoreGrown
<1>4. /\ CGP!BlocksOK(ms, f) /\ Len(ms) = Len(bs) + size
      /\ \A b \in 1 .. Len(bs) : ms[b] = bs[b]
      /\ \A b \in (Len(bs) + 1) .. (Len(bs) + size) : ms[b].fn = g /\ ms[b].succ = {}
  BY <1>3 DEF CGP!Grown, CGP!NewBlock
<1>5. at \in 1 .. Len(ms) /\ at \in 0 .. Len(ms)
  BY <1>2, <1>4
<1>6. Changed(ms, cs, at, E) /\ Len(cs) = Len(ms)
  <2>1. CGP!BlocksOK(ms, f) /\ cs = CGP!Insert(ms, at, t, targets)
    BY <1>4
  <2>2. \A d \in targets : <<at, d>> \in E
    BY <1>0
  <2>3. QED
    BY ONLY f \in Nat, t \in BOOLEAN, <1>5, <2>1, <2>2, InsertEdges
<1>7. \A b \in 1 .. Len(bs) : b \in 1 .. Len(ms)
  BY <1>2, <1>4
<1>8. \A b \in (Len(bs) + 1) .. Len(cs) : b \in 1 .. Len(ms) /\ b # at
                                          /\ b \in (Len(bs) + 1) .. (Len(bs) + size)
  BY <1>2, <1>4, <1>6
<1>9. \A b \in 1 .. Len(bs) : cs[b].fn = bs[b].fn
  BY <1>4, <1>6, <1>7 DEF Changed
<1>10. \A b \in 1 .. Len(bs) : \A d \in cs[b].succ : d \in bs[b].succ \/ <<b, d>> \in E
  BY <1>4, <1>6, <1>7 DEF Changed
<1>11. \A b \in (Len(bs) + 1) .. Len(cs) : cs[b].fn = bs[at].fn
  BY <1>1, <1>4, <1>6, <1>8 DEF Changed
<1>12. \A b \in (Len(bs) + 1) .. Len(cs) : cs[b].succ = {}
  <2>1. TAKE b \in (Len(bs) + 1) .. Len(cs)
  <2>2. \A d \in cs[b].succ : d \in ms[b].succ \/ <<b, d>> \in E
    BY <1>6, <1>8 DEF Changed
  <2>3. ms[b].succ = {} /\ b # at
    BY <1>4, <1>8
  <2>4. QED
    BY <1>0, <2>2, <2>3
<1>13. Len(cs) \in Nat /\ Len(bs) <= Len(cs) /\ at \in 0 .. Len(bs) /\ Len(cs) = Len(bs) + size
  BY <1>2, <1>4, <1>6
<1>14. QED
  BY <1>2, <1>9, <1>10, <1>11, <1>12, <1>13 DEF Changed

\* The regions of the module as it becomes.
LEMMA Grows ==
    ASSUME NEW bs, NEW cs, NEW D, RegionsOf(bs, D), NEW at, NEW E, Changed(bs, cs, at, E),
           \A b \in 1 .. Len(bs) : bs[b].succ \subseteq 1 .. Len(bs),
           \A s, t : <<s, t>> \in E =>
               \/ s = at /\ t \in (Len(bs) + 1) .. Len(cs)
               \/ s \in 1 .. Len(bs) /\ t \in 1 .. Len(bs) /\ Enters(D, Len(bs), s, t),
           NEW us, UsesIn(us, D, Len(bs))
    PROVE  \E G : /\ RegionsOf(cs, G)
                  /\ GrownFrom(D, Len(bs), Len(cs), at, G)
                  /\ UsesIn(us, G, Len(cs))
<1>1. PICK G : G = Grow(D, Len(bs), Len(cs), at)
  OBVIOUS
<1>2. RegionsOf(cs, Grow(D, Len(bs), Len(cs), at))
  BY RegionsGrow
<1>3. /\ Len(bs) \in Nat /\ Len(cs) \in Nat /\ Len(bs) <= Len(cs) /\ at \in 0 .. Len(bs)
      /\ D \in [1 .. Len(bs) -> SUBSET (1 .. Len(bs))]
  BY DEF Changed, RegionsOf
<1>4. GrownFrom(D, Len(bs), Len(cs), at, G)
  BY <1>1, <1>3, Grown
<1>5. UsesIn(us, Grow(D, Len(bs), Len(cs), at), Len(cs))
  BY <1>3, UsesGrow
<1>6. QED
  BY <1>1, <1>2, <1>4, <1>5
==============================================================================
