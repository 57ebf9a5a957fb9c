--------------------------- MODULE TypeCheckProofs ---------------------------
(***************************************************************************)
(* Proofs about TypeCheck, for every set of names, functions, expressions  *)
(* and annotations, every bound and every typing of expressions that meets *)
(* InferTopAssumption.                                                     *)
(***************************************************************************)
EXTENDS TypeCheck, FiniteSetTheorems, SequenceTheorems, TLAPS

(***************************************************************************)
(* The inductive invariant.                                                *)
(***************************************************************************)

\* A function is the outermost block and never nested, and it is one of those
\* the bound allows.
WalkShape ==
    /\ Len(walk) <= MaxDepth
    /\ walk # << >> => walk[1] = "fn" /\ fns < MaxFns /\ current \in FnNames
    /\ \A i \in 2 .. Len(walk) : walk[i] # "fn"

\* At most one of the scopes find searches in s declares a name.
UnshadowedIn(s) == \A n \in Names : \A i, j \in Hits(s, n) : i = j

\* The two stacks: each well formed, of matching heights, no name twice.
StackInv ==
    /\ scopes \in Seq(ScopeMaps)
    /\ walk \in Seq(Blocks)
    /\ deficit \in Nat
    /\ fns \in 0 .. MaxFns
    /\ ScopesMatchBlocks
    /\ WalkShape
    /\ UnshadowedIn(scopes)

Loops(w) == {i \in DOMAIN w : w[i] = "loop"}

\* The counter that started at 0 counts the loops on the walk.
LoopCount == start = 0 => loop_depth = Cardinality(Loops(walk))

IInv == TypeOK /\ StackInv /\ LoopCount

(***************************************************************************)
(* Lemmas about the operators.                                             *)
(***************************************************************************)

LEMMA EmptyLen ==
    ASSUME NEW S, NEW s \in Seq(S)
    PROVE  s = << >> <=> Len(s) = 0
  OBVIOUS

\* Popping a stack that is not empty.
LEMMA PopFacts ==
    ASSUME NEW S, NEW s \in Seq(S), s # << >>
    PROVE  /\ Pop(s) \in Seq(S)
           /\ Len(Pop(s)) = Len(s) - 1
           /\ \A i \in 1 .. Len(s) - 1 : Pop(s)[i] = s[i]
<1>1. PICK n \in Int : n = Len(s) - 1
  OBVIOUS
<1>2. /\ SubSeq(s, 1, n) \in Seq(S)
      /\ Len(SubSeq(s, 1, n)) = n
      /\ \A i \in 1 .. n : SubSeq(s, 1, n)[i] = s[i]
  BY <1>1
<1>3. QED
  BY <1>1, <1>2 DEF Pop

\* A remainder lies below its modulus.
LEMMA ModRange ==
    ASSUME NEW m \in Nat, m > 0, NEW a \in Int
    PROVE  a % m \in 0 .. (m - 1)
  BY Z3

\* A value below the modulus is its own remainder.
LEMMA ModSmall ==
    ASSUME NEW m \in Nat, NEW a \in Nat, a < m
    PROVE  a % m = a
  OBVIOUS

\* The outermost of a set with one element is that element.
LEMMA OutermostSingle ==
    ASSUME NEW I \in SUBSET Int, NEW i \in I, \A j \in I : j = i
    PROVE  Outermost(I) = i
<1>1. \E k \in I : \A j \in I : k <= j
  OBVIOUS
<1>2. Outermost(I) \in I
  BY <1>1, Zenon DEF Outermost
<1>3. QED
  BY <1>2

\* No type is the mark of an absent one.
LEMMA SentinelIsNoType == Sentinel \notin BuiltinTypes
  BY DEF Sentinel, BuiltinTypes, IntTypes, SignedTypes, UnsignedTypes, FloatTypes

LEMMA EmptyScopeType ==
    /\ EmptyScope \in ScopeMaps
    /\ \A n \in Names : EmptyScope[n] = Sentinel
  BY DEF EmptyScope, ScopeMaps

\* A scope pushed declares nothing.
LEMMA PushFacts ==
    ASSUME NEW s \in Seq(ScopeMaps)
    PROVE  /\ Push(s) \in Seq(ScopeMaps)
           /\ Len(Push(s)) = Len(s) + 1
           /\ \A i \in 1 .. Len(s) : Push(s)[i] = s[i]
           /\ Push(s)[Len(s) + 1] = EmptyScope
  BY EmptyScopeType DEF Push

(***************************************************************************)
(* What find searches.                                                     *)
(***************************************************************************)
LEMMA HitsPush ==
    ASSUME NEW s \in Seq(ScopeMaps), NEW n \in Names, deficit \in Nat
    PROVE  Hits(Push(s), n) = Hits(s, n)
  BY PushFacts, EmptyScopeType DEF Hits, Slots

LEMMA HitsPop ==
    ASSUME NEW s \in Seq(ScopeMaps), NEW n \in Names, deficit \in Nat, s # << >>
    PROVE  Hits(Pop(s), n) \subseteq Hits(s, n)
<1>1. Len(Pop(s)) = Len(s) - 1 /\ \A i \in 1 .. Len(s) - 1 : Pop(s)[i] = s[i]
  BY PopFacts
<1>2. QED
  BY <1>1 DEF Hits, Slots

\* Where no name is declared twice, find returns the declared type, and finds
\* nothing only where nothing is declared.
LEMMA FindFacts ==
    ASSUME NEW s \in Seq(ScopeMaps), NEW n \in Names, deficit \in Nat,
           UnshadowedIn(s)
    PROVE  /\ find(s, n) \in BuiltinTypes \cup {Sentinel}
           /\ find(s, n) = Sentinel <=> Hits(s, n) = {}
           /\ \A i \in Hits(s, n) : find(s, n) = s[i][n]
<1>1. CASE Hits(s, n) = {}
  BY <1>1 DEF find
<1>2. CASE Hits(s, n) # {}
  <2>1. PICK i \in Hits(s, n) : TRUE
    BY <1>2
  <2>2. \A j \in Hits(s, n) : j = i
    BY <2>1 DEF UnshadowedIn
  <2>3. Hits(s, n) \in SUBSET Int
    BY DEF Hits, Slots
  <2>4. Outermost(Hits(s, n)) = i
    BY <2>1, <2>2, <2>3, OutermostSingle
  <2>5. find(s, n) = s[i][n]
    BY <1>2, <2>4 DEF find
  <2>6. s[i][n] \in BuiltinTypes \cup {Sentinel} /\ s[i][n] # Sentinel
    BY <2>1 DEF Hits, Slots, ScopeMaps
  <2>7. QED
    BY <1>2, <2>2, <2>5, <2>6
<1>3. QED
  BY <1>1, <1>2

LEMMA VisibleType ==
    ASSUME NEW s \in Seq(ScopeMaps), deficit \in Nat, UnshadowedIn(s)
    PROVE  Visible(s) \in ScopeMaps
<1>1. \A n \in Names : find(s, n) \in BuiltinTypes \cup {Sentinel}
  BY FindFacts
<1>2. QED
  BY <1>1 DEF Visible, ScopeMaps

(***************************************************************************)
(* The loops on the walk.                                                  *)
(***************************************************************************)
LEMMA LoopsFinite ==
    ASSUME NEW w \in Seq(Blocks)
    PROVE  /\ IsFiniteSet(Loops(w))
           /\ Cardinality(Loops(w)) \in 0 .. Len(w)
<1>0. Len(w) \in Nat
  OBVIOUS
<1>1. IsFiniteSet(1 .. Len(w)) /\ Cardinality(1 .. Len(w)) = Len(w)
  BY <1>0, FS_Interval
<1>2. Loops(w) \subseteq 1 .. Len(w)
  <2>1. DOMAIN w = 1 .. Len(w)
    OBVIOUS
  <2>2. QED
    BY ONLY <2>1 DEF Loops
<1>3. IsFiniteSet(Loops(w)) /\ Cardinality(Loops(w)) <= Cardinality(1 .. Len(w))
  BY <1>1, <1>2, FS_Subset
<1>4. Cardinality(Loops(w)) \in Nat
  BY <1>3, FS_CardinalityType
<1>5. QED
  BY <1>1, <1>3, <1>4

LEMMA LoopsAppend ==
    ASSUME NEW w \in Seq(Blocks), NEW k \in Blocks
    PROVE  Cardinality(Loops(Append(w, k)))
               = Cardinality(Loops(w)) + (IF k = "loop" THEN 1 ELSE 0)
<1>1. /\ IsFiniteSet(Loops(w))
      /\ Cardinality(Loops(w)) \in Nat
  BY LoopsFinite
<1>2. CASE k = "loop"
  <2>1. Loops(Append(w, k)) = Loops(w) \cup {Len(w) + 1}
    BY <1>2 DEF Loops
  <2>2. Len(w) + 1 \notin Loops(w)
    BY DEF Loops
  <2>3. QED
    BY <1>1, <1>2, <2>1, <2>2, FS_AddElement
<1>3. CASE k # "loop"
  <2>1. Loops(Append(w, k)) = Loops(w)
    BY <1>3 DEF Loops
  <2>2. QED
    BY <1>1, <1>3, <2>1
<1>4. QED
  BY <1>2, <1>3

LEMMA LoopsPop ==
    ASSUME NEW w \in Seq(Blocks), w # << >>
    PROVE  Cardinality(Loops(Pop(w)))
               = Cardinality(Loops(w)) - (IF w[Len(w)] = "loop" THEN 1 ELSE 0)
<1>1. /\ IsFiniteSet(Loops(w))
      /\ Cardinality(Loops(w)) \in Nat
  BY LoopsFinite
<1>2. /\ Pop(w) \in Seq(Blocks)
      /\ Len(Pop(w)) = Len(w) - 1
      /\ \A i \in 1 .. Len(w) - 1 : Pop(w)[i] = w[i]
  BY PopFacts
<1>3. DOMAIN Pop(w) = 1 .. Len(w) - 1 /\ DOMAIN w = 1 .. Len(w) /\ Len(w) \in Nat
  BY <1>2
<1>4. CASE w[Len(w)] = "loop"
  <2>1. Loops(Pop(w)) = Loops(w) \ {Len(w)} /\ Len(w) \in Loops(w)
    BY <1>2, <1>3, <1>4 DEF Loops
  <2>2. QED
    BY <1>1, <1>4, <2>1, FS_RemoveElement
<1>5. CASE w[Len(w)] # "loop"
  <2>1. Loops(Pop(w)) = Loops(w)
    BY <1>2, <1>3, <1>5 DEF Loops
  <2>2. QED
    BY <1>1, <1>5, <2>1
<1>6. QED
  BY <1>4, <1>5
(***************************************************************************)
(* The three ways a step changes the two stacks within a function.         *)
(***************************************************************************)
LEMMA BlockOpened ==
    ASSUME StackInv, walk # << >>, Len(walk) < MaxDepth, BoundsAssumption,
           NEW k \in Blocks \ {"fn"},
           scopes' = Push(scopes), walk' = Append(walk, k),
           UNCHANGED <<deficit, current, fns>>
    PROVE  StackInv'
<1> USE DEF StackInv
<1>1. /\ scopes' \in Seq(ScopeMaps)
      /\ Len(scopes') = Len(scopes) + 1
  BY PushFacts
<1>2. /\ walk' \in Seq(Blocks)
      /\ Len(walk') = Len(walk) + 1
      /\ \A i \in 1 .. Len(walk) : walk'[i] = walk[i]
      /\ walk'[Len(walk) + 1] = k
  OBVIOUS
<1>3. ScopesMatchBlocks'
  BY <1>1, <1>2 DEF ScopesMatchBlocks
<1>4. WalkShape'
  BY <1>2 DEF WalkShape
<1>5. UnshadowedIn(Push(scopes))
  BY HitsPush DEF UnshadowedIn
<1>6. UnshadowedIn(scopes)'
  BY <1>5 DEF UnshadowedIn, Hits, Slots
<1>7. QED
  BY <1>1, <1>2, <1>3, <1>4, <1>6

LEMMA BlockClosed ==
    ASSUME StackInv, walk # << >>, Top # "fn",
           scopes' = Pop(scopes), walk' = Unwound,
           UNCHANGED <<deficit, current, fns>>
    PROVE  StackInv'
<1> USE DEF StackInv
<1>1. Len(walk) \in Nat \ {0} /\ Len(scopes) \in Nat \ {0} /\ scopes # << >>
  BY DEF ScopesMatchBlocks
<1>2. /\ scopes' \in Seq(ScopeMaps)
      /\ Len(scopes') = Len(scopes) - 1
  BY <1>1, PopFacts
<1>3. /\ walk' \in Seq(Blocks)
      /\ Len(walk') = Len(walk) - 1
      /\ \A i \in 1 .. Len(walk) - 1 : walk'[i] = walk[i]
  BY PopFacts DEF Unwound
<1>4. ScopesMatchBlocks'
  BY <1>1, <1>2, <1>3 DEF ScopesMatchBlocks
<1>5. WalkShape'
  <2>1. Len(walk) >= 2
    BY <1>1 DEF WalkShape, Top
  <2>2. /\ Len(walk) <= MaxDepth
        /\ walk[1] = "fn" /\ fns < MaxFns /\ current \in FnNames
        /\ \A i \in 2 .. Len(walk) : walk[i] # "fn"
    BY DEF WalkShape
  <2>3. Len(walk') <= MaxDepth
    BY <1>1, <1>3, <2>2, BoundsAssumption DEF BoundsAssumption
  <2>4. walk'[1] = "fn" /\ \A i \in 2 .. Len(walk') : walk'[i] # "fn"
    BY <1>1, <1>3, <2>1, <2>2
  <2>5. QED
    BY <2>2, <2>3, <2>4 DEF WalkShape
<1>6. UnshadowedIn(Pop(scopes))
  BY <1>1, HitsPop DEF UnshadowedIn
<1>7. UnshadowedIn(scopes)'
  BY <1>6 DEF UnshadowedIn, Hits, Slots
<1>8. QED
  BY <1>2, <1>3, <1>4, <1>5, <1>7

LEMMA BlockReplaced ==
    ASSUME StackInv, walk # << >>, Top # "fn",
           NEW k \in Blocks \ {"fn"},
           scopes' = Push(Pop(scopes)), walk' = Append(Unwound, k),
           UNCHANGED <<deficit, current, fns>>
    PROVE  StackInv'
<1> USE DEF StackInv
<1>1. Len(walk) \in Nat \ {0} /\ Len(scopes) \in Nat \ {0} /\ scopes # << >>
  BY DEF ScopesMatchBlocks
<1>2. /\ Pop(scopes) \in Seq(ScopeMaps)
      /\ Len(Pop(scopes)) = Len(scopes) - 1
  BY <1>1, PopFacts
<1>3. /\ scopes' \in Seq(ScopeMaps)
      /\ Len(scopes') = Len(scopes)
  BY <1>1, <1>2, PushFacts
<1>4. /\ Unwound \in Seq(Blocks)
      /\ Len(Unwound) = Len(walk) - 1
      /\ \A i \in 1 .. Len(walk) - 1 : Unwound[i] = walk[i]
  BY PopFacts DEF Unwound
<1>5. /\ walk' \in Seq(Blocks)
      /\ Len(walk') = Len(walk)
      /\ \A i \in 1 .. Len(walk) - 1 : walk'[i] = walk[i]
      /\ walk'[Len(walk)] = k
  BY <1>1, <1>4
<1>6. ScopesMatchBlocks'
  BY <1>1, <1>3, <1>5 DEF ScopesMatchBlocks
<1>7. WalkShape'
  <2>1. Len(walk) >= 2
    BY <1>1 DEF WalkShape, Top
  <2>2. /\ Len(walk) <= MaxDepth
        /\ walk[1] = "fn" /\ fns < MaxFns /\ current \in FnNames
        /\ \A i \in 2 .. Len(walk) : walk[i] # "fn"
    BY DEF WalkShape
  <2>3. walk'[1] = "fn" /\ \A i \in 2 .. Len(walk') : walk'[i] # "fn"
    <3>1. walk'[1] = walk[1]
      BY ONLY <1>1, <1>5, <2>1
    <3>2. \A i \in 2 .. Len(walk') : walk'[i] = walk[i] \/ walk'[i] = k
      BY ONLY <1>1, <1>5, <2>1
    <3>3. QED
      BY ONLY <1>5, <2>2, <3>1, <3>2, k # "fn"
  <2>4. fns' < MaxFns /\ current' \in FnNames
    BY <2>2
  <2>5. QED
    BY ONLY <1>5, <2>2, <2>3, <2>4 DEF WalkShape
<1>8. UnshadowedIn(Push(Pop(scopes)))
  <2>1. ASSUME NEW n \in Names
        PROVE  Hits(Push(Pop(scopes)), n) \subseteq Hits(scopes, n)
    <3>1. Hits(Pop(scopes), n) \subseteq Hits(scopes, n)
      BY <1>1, HitsPop
    <3>2. Hits(Push(Pop(scopes)), n) = Hits(Pop(scopes), n)
      BY <1>2, HitsPush
    <3>3. QED
      BY ONLY <3>1, <3>2
  <2>2. UnshadowedIn(scopes)
    OBVIOUS
  <2>3. QED
    BY ONLY <2>1, <2>2 DEF UnshadowedIn
<1>9. UnshadowedIn(scopes)'
  BY <1>8 DEF UnshadowedIn, Hits, Slots
<1>10. QED
  BY <1>3, <1>5, <1>6, <1>7, <1>9

\* A declaration fills the innermost scope's entry of a name no scope has.
LEMMA Stored ==
    ASSUME StackInv, walk # << >>, NEW n \in Names, NEW t \in BuiltinTypes,
           find(scopes, n) = Sentinel,
           scopes' = store(n, t), UNCHANGED <<deficit, walk, current, fns>>
    PROVE  StackInv'
<1> USE DEF StackInv
<1>1. Len(scopes) \in Nat \ {0}
  BY DEF ScopesMatchBlocks
<1>2. /\ scopes' \in Seq(ScopeMaps)
      /\ Len(scopes') = Len(scopes)
      /\ \A i \in 1 .. Len(scopes), m \in Names :
            scopes'[i][m] = IF i = Len(scopes) /\ m = n THEN t
                                                      ELSE scopes[i][m]
  BY <1>1 DEF store, ScopeMaps
<1>3. ScopesMatchBlocks'
  BY <1>2 DEF ScopesMatchBlocks
<1>4. WalkShape'
  BY DEF WalkShape
<1>5. Hits(scopes, n) = {}
  BY FindFacts
<1>6. \A i, j \in Hits(scopes, n)' : i = j
  BY <1>1, <1>2, <1>5 DEF Hits, Slots
<1>7. ASSUME NEW m \in Names \ {n}
      PROVE  \A i, j \in Hits(scopes, m)' : i = j
  <2>1. Hits(scopes, m)' = Hits(scopes, m)
    BY <1>1, <1>2 DEF Hits, Slots
  <2>2. QED
    BY <2>1 DEF UnshadowedIn
<1>8. UnshadowedIn(scopes)'
  BY <1>6, <1>7 DEF UnshadowedIn
<1>9. QED
  BY <1>2, <1>3, <1>4, <1>8

(***************************************************************************)
(* The invariant holds initially and every step preserves it.              *)
(***************************************************************************)
LEMMA InitIInv == Init => IInv
<1> SUFFICES ASSUME Init PROVE IInv
  OBVIOUS
<1> USE BoundsAssumption DEF Init, BoundsAssumption
<1>1. TypeOK
  BY EmptyScopeType DEF TypeOK
<1>2. UnshadowedIn(scopes)
  BY EmptyScopeType DEF UnshadowedIn, Hits, Slots
<1>3. StackInv
  BY <1>1, <1>2 DEF StackInv, TypeOK, ScopesMatchBlocks, WalkShape
<1>4. Loops(walk) = {}
  BY DEF Loops
<1>5. LoopCount
  BY <1>4, FS_EmptySet DEF LoopCount
<1>6. QED
  BY <1>1, <1>3, <1>5 DEF IInv

\* A step that leaves both stacks and the counter alone.
LEMMA StacksUnchanged ==
    ASSUME IInv, UNCHANGED <<scopes, deficit, loop_depth, start, function_map,
                             walk, current, fns>>,
           status' \in {"running", "accepted", "rejected", "crashed"}
    PROVE  IInv'
<1>1. TypeOK'
  BY DEF IInv, TypeOK
<1>2. StackInv'
  BY DEF IInv, StackInv, ScopesMatchBlocks, WalkShape, UnshadowedIn, Hits, Slots
<1>3. LoopCount'
  BY DEF IInv, LoopCount
<1>4. QED
  BY <1>1, <1>2, <1>3 DEF IInv

LEMMA EnterFunctionIInv ==
    ASSUME IInv, NEW f \in FnNames, EnterFunction(f)
    PROVE  IInv'
<1> USE DEF EnterFunction
<1>1. TypeOK /\ StackInv /\ LoopCount
  BY DEF IInv
<1>2. /\ scopes' \in Seq(ScopeMaps)
      /\ Len(scopes') = Len(scopes) + 1
  BY <1>1, PushFacts DEF StackInv
<1>3. TypeOK'
  BY <1>1, <1>2 DEF TypeOK, Blocks
<1>4. UnshadowedIn(Push(scopes))
  BY <1>1, HitsPush DEF UnshadowedIn, StackInv
<1>5. UnshadowedIn(scopes)'
  BY <1>4 DEF UnshadowedIn, Hits, Slots
<1>6. /\ ScopesMatchBlocks'
      /\ WalkShape'
  BY <1>1, <1>2, BoundsAssumption
  DEF StackInv, ScopesMatchBlocks, WalkShape, BoundsAssumption
<1>7. StackInv'
  BY <1>3, <1>5, <1>6 DEF StackInv, TypeOK
<1>8. Loops(walk)' = {} /\ Loops(walk) = {}
  BY DEF Loops
<1>9. LoopCount'
  BY <1>1, <1>8 DEF LoopCount
<1>10. QED
  BY <1>3, <1>7, <1>9 DEF IInv

\* When a function ends its body is the only open block; both pops together
\* empty the scope stack, the second one of it too early from then on.
LEMMA LeaveFunctionFacts ==
    ASSUME IInv, LeaveFunction
    PROVE  /\ Len(walk) = 1 /\ walk # << >> /\ walk' = << >>
           /\ fns \in Nat /\ fns < MaxFns /\ fns' = fns + 1
           /\ Len(scopes) = IF fns = 0 THEN 2 ELSE 1
           /\ deficit = IF fns = 0 THEN 0 ELSE fns - 1
           /\ scopes' = << >> /\ deficit' = fns
           /\ walk[1] = "fn" /\ current \in FnNames /\ current' = NoFunction
           /\ function_map' = function_map \cup {current}
           /\ status' \in {"running", "crashed"}
           /\ UNCHANGED <<loop_depth, start>>
<1>1. TypeOK /\ StackInv /\ LoopCount
  BY DEF IInv
<1>2. /\ walk # << >> /\ walk[Len(walk)] = "fn" /\ walk' = << >>
      /\ function_map' = function_map \cup {current}
      /\ current' = NoFunction
      /\ fns' = fns + 1
      /\ status = "running"
      /\ UNCHANGED <<loop_depth, start>>
  BY DEF LeaveFunction, At, Top
<1>3. IF Len(scopes) > 1
      THEN scopes' = Pop(Pop(scopes)) /\ UNCHANGED <<deficit, status>>
      ELSE /\ scopes' = << >>
           /\ deficit' = deficit + 1
           /\ status' \in {"running", "crashed"}
  BY DEF LeaveFunction
<1>4. /\ walk \in Seq(Blocks) /\ Len(walk) = 1 /\ walk[1] = "fn"
      /\ fns < MaxFns /\ current \in FnNames
  <2>1. walk \in Seq(Blocks) /\ WalkShape
    BY <1>1 DEF StackInv
  <2>2. Len(walk) \in Nat \ {0}
    BY <1>2, <2>1
  <2>3. Len(walk) \notin 2 .. Len(walk)
    BY <1>2, <2>1 DEF WalkShape
  <2>4. Len(walk) = 1
    BY <2>2, <2>3
  <2>5. QED
    BY <1>2, <2>1, <2>4 DEF WalkShape
<1>5. /\ fns \in Nat /\ MaxFns \in Nat /\ deficit \in Nat
      /\ Len(scopes) = IF fns = 0 THEN 2 ELSE 1
      /\ deficit = IF fns = 0 THEN 0 ELSE fns - 1
  BY <1>1, <1>4, BoundsAssumption DEF StackInv, ScopesMatchBlocks, BoundsAssumption
<1>6. /\ scopes' = << >>
      /\ deficit' = fns
      /\ status' \in {"running", "crashed"}
  <2>1. CASE fns = 0
    <3>1. scopes \in Seq(ScopeMaps) /\ Len(scopes) = 2
      BY <1>1, <1>5, <2>1 DEF StackInv
    <3>2. scopes # << >>
      BY <3>1, EmptyLen
    <3>3. Pop(scopes) \in Seq(ScopeMaps) /\ Len(Pop(scopes)) = Len(scopes) - 1
      BY <3>1, <3>2, PopFacts
    <3>4. Pop(scopes) # << >>
      BY <3>1, <3>3, EmptyLen
    <3>5. /\ Pop(Pop(scopes)) \in Seq(ScopeMaps)
          /\ Len(Pop(Pop(scopes))) = Len(Pop(scopes)) - 1
      BY <3>3, <3>4, PopFacts
    <3>6. Pop(Pop(scopes)) = << >>
      BY <3>1, <3>3, <3>5, EmptyLen
    <3>7. QED
      BY <1>2, <1>3, <1>5, <2>1, <3>1, <3>6
  <2>2. CASE fns # 0
    BY <1>3, <1>5, <2>2
  <2>3. QED
    BY <2>1, <2>2
<1>7. QED
  BY <1>2, <1>4, <1>5, <1>6

LEMMA LeaveFunctionIInv ==
    ASSUME IInv, LeaveFunction
    PROVE  IInv'
<1>1. TypeOK /\ StackInv /\ LoopCount
  BY DEF IInv
<1>2. /\ Len(walk) = 1 /\ walk[1] = "fn" /\ walk' = << >>
      /\ fns \in Nat /\ fns < MaxFns /\ fns' = fns + 1
      /\ scopes' = << >> /\ deficit' = fns
      /\ current \in FnNames /\ current' = NoFunction
      /\ function_map' = function_map \cup {current}
      /\ status' \in {"running", "crashed"}
      /\ UNCHANGED <<loop_depth, start>>
  BY LeaveFunctionFacts
<1>3. MaxFns \in Nat /\ MaxDepth \in Nat /\ walk \in Seq(Blocks)
  BY <1>1, BoundsAssumption DEF BoundsAssumption, StackInv
<1>4. TypeOK'
  BY <1>1, <1>2, <1>3 DEF TypeOK
<1>5. StackInv'
  BY <1>2, <1>3, <1>4
  DEF StackInv, TypeOK, ScopesMatchBlocks, WalkShape, UnshadowedIn, Hits, Slots
<1>6. Loops(walk) = {} /\ Loops(walk)' = {}
  BY <1>2, <1>3 DEF Loops
<1>7. LoopCount'
  BY <1>1, <1>2, <1>6 DEF LoopCount
<1>8. QED
  BY <1>4, <1>5, <1>7 DEF IInv

LEMMA DeclareIInv ==
    ASSUME IInv, NEW n \in Names, NEW a \in Annotations \cup {NoAnnotation},
           NEW e \in Exprs, Declare(n, a, e)
    PROVE  IInv'
<1> DEFINE r == IF a = NoAnnotation
                THEN InferTop(e, Visible(scopes), function_map)
                ELSE CheckExpr(e, a, Visible(scopes), function_map)
           t == IF a = NoAnnotation THEN r.type ELSE a
<1>1. TypeOK /\ StackInv /\ LoopCount
  BY DEF IInv
<1>2. \/ /\ find(scopes, n) = Sentinel /\ r.ok
         /\ scopes' = store(n, t) /\ status' = status
      \/ scopes' = scopes /\ status' = "rejected"
  BY DEF Declare
<1>3. /\ walk # << >>
      /\ UNCHANGED <<deficit, loop_depth, start, function_map, walk, current,
                     fns>>
  BY DEF Declare, InBlock
<1>4. CASE scopes' = scopes /\ status' = "rejected"
  BY <1>3, <1>4, StacksUnchanged
<1>5. CASE /\ find(scopes, n) = Sentinel /\ r.ok
           /\ scopes' = store(n, t) /\ status' = status
  <2>1. Visible(scopes) \in ScopeMaps
    BY <1>1, VisibleType DEF StackInv
  <2>2. function_map \in SUBSET FnNames
    BY <1>1 DEF TypeOK
  <2>3. t \in BuiltinTypes
    BY <1>5, <2>1, <2>2, InferTopAssumption, BoundsAssumption
    DEF InferTopAssumption, BoundsAssumption
  <2> HIDE DEF r, t
  <2>4. StackInv'
    BY <1>1, <1>3, <1>5, <2>3, Stored
  <2>5. TypeOK'
    BY <1>1, <1>3, <1>5, <2>4 DEF TypeOK, StackInv
  <2>6. LoopCount'
    BY <1>1, <1>3 DEF LoopCount
  <2>7. QED
    BY <2>4, <2>5, <2>6 DEF IInv
<1>6. QED
  BY <1>2, <1>4, <1>5

\* A block other than a loop's opens, closes or makes way for the next branch:
\* the number of loops on the walk stays.
LEMMA LoopsKept ==
    ASSUME StackInv, LoopCount, UNCHANGED <<loop_depth, start>>,
           \/ \E k \in Blocks \ {"loop"} : walk' = Append(walk, k)
           \/ /\ walk # << >> /\ Top # "loop"
              /\ \/ walk' = Unwound
                 \/ \E k \in Blocks \ {"loop"} : walk' = Append(Unwound, k)
    PROVE  LoopCount'
<1>1. walk \in Seq(Blocks) /\ Cardinality(Loops(walk)) \in Nat
  BY LoopsFinite DEF StackInv
<1>2. ASSUME NEW k \in Blocks \ {"loop"}, walk' = Append(walk, k)
      PROVE  Cardinality(Loops(walk')) = Cardinality(Loops(walk))
  BY <1>1, <1>2, LoopsAppend
<1>3. ASSUME walk # << >>, Top # "loop"
      PROVE  /\ Unwound \in Seq(Blocks)
             /\ Cardinality(Loops(Unwound)) = Cardinality(Loops(walk))
  BY <1>1, <1>3, LoopsPop, PopFacts DEF Unwound, Top
<1>4. ASSUME walk # << >>, Top # "loop",
             NEW k \in Blocks \ {"loop"}, walk' = Append(Unwound, k)
      PROVE  Cardinality(Loops(walk')) = Cardinality(Loops(walk))
  <2>1. /\ Unwound \in Seq(Blocks)
        /\ Cardinality(Loops(Unwound)) = Cardinality(Loops(walk))
    BY <1>3, <1>4
  <2>2. QED
    BY <1>1, <1>4, <2>1, LoopsAppend
<1>5. Cardinality(Loops(walk')) = Cardinality(Loops(walk))
  BY <1>2, <1>3, <1>4
<1>6. Loops(walk)' = Loops(walk')
  BY DEF Loops
<1>7. QED
  BY <1>5, <1>6 DEF LoopCount

\* The typing of the rest, once the stacks are known to be well formed.
LEMMA TypeOKKept ==
    ASSUME TypeOK, StackInv', loop_depth' \in 0 .. (LoopMod - 1),
           UNCHANGED <<start, function_map, current>>,
           status' \in {"running", "rejected"}
    PROVE  TypeOK'
  BY DEF TypeOK, StackInv

LEMMA EnterIfIInv ==
    ASSUME IInv, NEW e \in Exprs, NEW kind \in ThenBlocks, EnterIf(e, kind)
    PROVE  IInv'
<1> DEFINE ok == Condition(e, scopes).ok
<1>1. /\ walk # << >> /\ Len(walk) < MaxDepth
      /\ status' \in {"running", "rejected"}
      /\ IF ok THEN scopes' = Push(scopes) /\ walk' = Append(walk, kind)
               ELSE UNCHANGED <<scopes, walk>>
      /\ UNCHANGED <<deficit, loop_depth, start, function_map, current, fns>>
  BY DEF EnterIf, InBlock, MayNest, Accepts
<1> HIDE DEF ok
<1>2. TypeOK /\ StackInv /\ LoopCount /\ kind \in Blocks \ {"fn", "loop"}
  BY DEF IInv, Blocks, ThenBlocks
<1>3. CASE ok
  <2>1. StackInv'
    BY <1>1, <1>2, <1>3, BlockOpened, BoundsAssumption
  <2>2. TypeOK'
    BY <1>1, <1>2, <2>1, TypeOKKept DEF TypeOK
  <2>3. LoopCount'
    BY <1>1, <1>2, <1>3, LoopsKept
  <2>4. QED
    BY <2>1, <2>2, <2>3 DEF IInv
<1>4. CASE ~ok
  BY <1>1, <1>4, StacksUnchanged
<1>5. QED
  BY <1>3, <1>4

LEMMA LeaveIfIInv ==
    ASSUME IInv, LeaveIf
    PROVE  IInv'
<1>1. /\ walk # << >> /\ Top # "fn" /\ Top # "loop" /\ status' = "running"
      /\ scopes' = Pop(scopes) /\ walk' = Unwound
      /\ UNCHANGED <<deficit, loop_depth, start, function_map, current, fns>>
  BY DEF LeaveIf, At
<1>2. TypeOK /\ StackInv /\ LoopCount
  BY DEF IInv
<1>3. StackInv'
  BY <1>1, <1>2, BlockClosed
<1>4. TypeOK'
  BY <1>1, <1>2, <1>3, TypeOKKept DEF TypeOK
<1>5. LoopCount'
  BY <1>1, <1>2, LoopsKept
<1>6. QED
  BY <1>3, <1>4, <1>5 DEF IInv

LEMMA EnterElseIInv ==
    ASSUME IInv, EnterElse
    PROVE  IInv'
<1>1. /\ walk # << >> /\ Top # "fn" /\ Top # "loop" /\ status' = "running"
      /\ scopes' = Push(Pop(scopes)) /\ walk' = Append(Unwound, "else")
      /\ UNCHANGED <<deficit, loop_depth, start, function_map, current, fns>>
  BY DEF EnterElse, At
<1>2. TypeOK /\ StackInv /\ LoopCount /\ "else" \in Blocks \ {"fn", "loop"}
  BY DEF IInv, Blocks
<1>3. StackInv'
  BY <1>1, <1>2, BlockReplaced
<1>4. TypeOK'
  BY <1>1, <1>2, <1>3, TypeOKKept DEF TypeOK
<1>5. LoopCount'
  BY <1>1, <1>2, LoopsKept
<1>6. QED
  BY <1>3, <1>4, <1>5 DEF IInv

LEMMA ElseIfIInv ==
    ASSUME IInv, NEW e \in Exprs, NEW kind \in ThenBlocks, ElseIf(e, kind)
    PROVE  IInv'
<1> DEFINE ok == Condition(e, Pop(scopes)).ok
<1>1. /\ walk # << >> /\ Top # "fn" /\ Top # "loop"
      /\ status' \in {"running", "rejected"}
      /\ IF ok THEN scopes' = Push(Pop(scopes)) /\ walk' = Append(Unwound, kind)
               ELSE scopes' = Pop(scopes) /\ walk' = Unwound
      /\ UNCHANGED <<deficit, loop_depth, start, function_map, current, fns>>
  BY DEF ElseIf, At, Accepts
<1> HIDE DEF ok
<1>2. TypeOK /\ StackInv /\ LoopCount /\ kind \in Blocks \ {"fn", "loop"}
  BY DEF IInv, Blocks, ThenBlocks
<1>3. StackInv'
  BY <1>1, <1>2, BlockReplaced, BlockClosed
<1>4. TypeOK'
  BY <1>1, <1>2, <1>3, TypeOKKept DEF TypeOK
<1>5. LoopCount'
  BY <1>1, <1>2, LoopsKept
<1>6. QED
  BY <1>3, <1>4, <1>5 DEF IInv

LEMMA EnterLoopIInv ==
    ASSUME IInv, EnterLoop
    PROVE  IInv'
<1>1. /\ walk # << >> /\ Len(walk) < MaxDepth /\ status' = "running"
      /\ scopes' = Push(scopes) /\ walk' = Append(walk, "loop")
      /\ loop_depth' = (loop_depth + 1) % LoopMod
      /\ UNCHANGED <<deficit, start, function_map, current, fns>>
  BY DEF EnterLoop, InBlock, MayNest
<1>2. /\ TypeOK /\ StackInv /\ LoopCount
      /\ walk \in Seq(Blocks)
      /\ loop_depth \in 0 .. (LoopMod - 1)
      /\ "loop" \in Blocks \ {"fn"}
  BY DEF IInv, Blocks, StackInv, TypeOK
<1>3. LoopMod \in Nat /\ MaxDepth \in Nat /\ MaxDepth < LoopMod
  BY BoundsAssumption DEF BoundsAssumption
<1>4. StackInv'
  BY <1>1, <1>2, BlockOpened, BoundsAssumption
<1>5. loop_depth' \in 0 .. (LoopMod - 1)
  BY <1>1, <1>2, <1>3, ModRange
<1>6. TypeOK'
  BY <1>1, <1>2, <1>4, <1>5, TypeOKKept
<1>7. ASSUME start = 0
      PROVE  loop_depth' = Cardinality(Loops(walk'))
  <2>1. loop_depth = Cardinality(Loops(walk)) /\ loop_depth \in 0 .. Len(walk)
    BY <1>2, <1>7, LoopsFinite DEF LoopCount
  <2>2. (loop_depth + 1) % LoopMod = loop_depth + 1
    BY <1>1, <1>2, <1>3, <2>1, ModSmall
  <2>3. QED
    BY <1>1, <1>2, <2>1, <2>2, LoopsAppend
<1>8. Loops(walk)' = Loops(walk')
  BY DEF Loops
<1>9. LoopCount'
  BY <1>1, <1>7, <1>8 DEF LoopCount
<1>10. QED
  BY <1>4, <1>6, <1>9 DEF IInv

LEMMA LeaveLoopIInv ==
    ASSUME IInv, LeaveLoop
    PROVE  IInv'
<1>1. /\ walk # << >> /\ Top = "loop" /\ status' = "running"
      /\ scopes' = Pop(scopes) /\ walk' = Unwound
      /\ loop_depth' = (loop_depth - 1) % LoopMod
      /\ UNCHANGED <<deficit, start, function_map, current, fns>>
  BY DEF LeaveLoop, At
<1>2. /\ TypeOK /\ StackInv /\ LoopCount
      /\ walk \in Seq(Blocks)
      /\ loop_depth \in 0 .. (LoopMod - 1)
  BY DEF IInv, StackInv, TypeOK
<1>3. LoopMod \in Nat /\ LoopMod > 0
  BY BoundsAssumption DEF BoundsAssumption
<1>4. StackInv'
  BY <1>1, <1>2, BlockClosed
<1>5. loop_depth' \in 0 .. (LoopMod - 1)
  BY <1>1, <1>2, <1>3, ModRange
<1>6. TypeOK'
  BY <1>1, <1>2, <1>4, <1>5, TypeOKKept
<1>7. ASSUME start = 0
      PROVE  loop_depth' = Cardinality(Loops(walk'))
  <2>1. loop_depth = Cardinality(Loops(walk))
    BY <1>2, <1>7 DEF LoopCount
  <2>2. /\ Unwound \in Seq(Blocks)
        /\ Cardinality(Loops(Unwound)) = Cardinality(Loops(walk)) - 1
    BY <1>1, <1>2, LoopsPop, PopFacts DEF Unwound, Top
  <2>3. Cardinality(Loops(Unwound)) \in Nat
    BY <2>2, LoopsFinite
  <2>4. loop_depth - 1 \in Nat /\ loop_depth - 1 < LoopMod
    BY <1>2, <1>3, <2>1, <2>2, <2>3
  <2>5. (loop_depth - 1) % LoopMod = loop_depth - 1
    BY <1>3, <2>4, ModSmall
  <2>6. QED
    BY <1>1, <2>1, <2>2, <2>5
<1>8. Loops(walk)' = Loops(walk')
  BY DEF Loops
<1>9. LoopCount'
  BY <1>1, <1>7, <1>8 DEF LoopCount
<1>10. QED
  BY <1>4, <1>6, <1>9 DEF IInv

LEMMA StepIInv == IInv /\ [Next]_vars => IInv'
<1> SUFFICES ASSUME IInv, [Next]_vars PROVE IInv'
  OBVIOUS
<1>0. status \in {"running", "accepted", "rejected", "crashed"}
  BY DEF IInv, TypeOK
<1>1. ASSUME NEW f \in FnNames, EnterFunction(f) PROVE IInv'
  BY <1>1, EnterFunctionIInv
<1>2. CASE LeaveFunction
  BY <1>2, LeaveFunctionIInv
<1>3. CASE MemoryFault
  BY <1>3, StacksUnchanged DEF MemoryFault
<1>4. ASSUME NEW n \in Names, NEW a \in Annotations \cup {NoAnnotation},
             NEW e \in Exprs, Declare(n, a, e)
      PROVE  IInv'
  BY <1>4, DeclareIInv
<1>5. ASSUME NEW n \in Names, NEW e \in Exprs, Assign(n, e) PROVE IInv'
  <2>1. /\ status' \in {"running", "rejected"}
        /\ UNCHANGED <<scopes, deficit, loop_depth, start, function_map, walk,
                       current, fns>>
    BY <1>5 DEF Assign, Accepts
  <2>2. QED
    BY <2>1, StacksUnchanged
<1>6. ASSUME NEW e \in Exprs, Show(e) \/ Return(e) PROVE IInv'
  <2>1. /\ status' \in {"running", "rejected"}
        /\ UNCHANGED <<scopes, deficit, loop_depth, start, function_map, walk,
                       current, fns>>
    BY <1>6 DEF Show, Return, Accepts
  <2>2. QED
    BY <2>1, StacksUnchanged
<1>7. CASE Jump
  BY <1>7, StacksUnchanged DEF Jump
<1>8. ASSUME NEW e \in Exprs, NEW kind \in ThenBlocks,
             EnterIf(e, kind) \/ ElseIf(e, kind)
      PROVE  IInv'
  BY <1>8, EnterIfIInv, ElseIfIInv
<1>9. CASE EnterElse
  BY <1>9, EnterElseIInv
<1>10. CASE LeaveIf
  BY <1>10, LeaveIfIInv
<1>11. CASE EnterLoop
  BY <1>11, EnterLoopIInv
<1>12. CASE LeaveLoop
  BY <1>12, LeaveLoopIInv
<1>13. CASE Finish
  BY <1>13, StacksUnchanged DEF Finish
<1>14. CASE Terminated \/ UNCHANGED vars
  <2>1. UNCHANGED vars
    BY <1>14 DEF Terminated
  <2>2. QED
    BY <1>0, <2>1, StacksUnchanged DEF vars
<1>15. CASE Statement
  BY <1>4, <1>5, <1>6, <1>7, <1>15 DEF Statement
<1>16. CASE Branch
  BY <1>8, <1>9, <1>10, <1>16 DEF Branch
<1>17. QED
  BY <1>1, <1>2, <1>3, <1>11, <1>12, <1>13, <1>14, <1>15, <1>16 DEF Next

LEMMA Inductive == Spec => []IInv
  BY InitIInv, StepIInv, PTL DEF Spec

(***************************************************************************)
(* The theorems.                                                           *)
(***************************************************************************)

\* Every variable of the statement walk keeps its type: in particular what a
\* scope stores for a name is always a concrete type or nothing.
THEOREM TypeCorrect == Spec => []TypeOK
<1>1. IInv => TypeOK
  BY DEF IInv
<1>2. QED
  BY <1>1, Inductive, PTL

\* The scope stack and the open blocks rise and fall together, up to the
\* extra pop at the end of each function: exactly fns - 1 pops of an empty
\* stack have happened when fns functions are done (type_check_visitor.cxx:194).
THEOREM ScopesMatch == Spec => []ScopesMatchBlocks
<1>1. IInv => ScopesMatchBlocks
  BY DEF IInv, StackInv
<1>2. QED
  BY <1>1, Inductive, PTL

\* The outermost-first search of find is harmless: no name is ever declared in
\* two open scopes, so the first scope that has it is the only one
\* (type_check_visitor.cxx:107-114).
THEOREM NoShadowing == Spec => []LiveMeansVisible
<1>1. IInv => LiveMeansVisible
  <2>1. SUFFICES ASSUME IInv, deficit = 0,
                        NEW i \in DOMAIN scopes, NEW n \in Names,
                        scopes[i][n] # Sentinel
                 PROVE  find(scopes, n) = scopes[i][n]
    BY DEF LiveMeansVisible
  <2>2. scopes \in Seq(ScopeMaps) /\ deficit \in Nat /\ UnshadowedIn(scopes)
    BY <2>1 DEF IInv, StackInv
  <2>3. i \in Hits(scopes, n)
    BY <2>1, <2>2 DEF Hits, Slots
  <2>4. QED
    BY <2>2, <2>3, FindFacts
<1>2. QED
  BY <1>1, Inductive, PTL

\* The counter is zero exactly outside of loops.
LEMMA CounterZero ==
    ASSUME IInv, start = 0
    PROVE  loop_depth = 0 <=> Loops(walk) = {}
<1>1. walk \in Seq(Blocks) /\ loop_depth = Cardinality(Loops(walk))
  BY DEF IInv, TypeOK, StackInv, LoopCount
<1>2. IsFiniteSet(Loops(walk))
  BY <1>1, LoopsFinite
<1>3. QED
  BY <1>1, <1>2, FS_EmptySet

\* When loop_depth starts at zero it counts the open loops, so the guard of
\* break and cycle accepts exactly the jumps a loop encloses.  The hypothesis
\* is the initialisation the class lacks (type_check_visitor.h:125).
THEOREM JumpGuard == InitialLoopDepths = {0} => (Spec => []JumpGuardExact)
<1>1. ASSUME InitialLoopDepths = {0}, IInv
      PROVE  JumpGuardExact
  <2>1. start = 0
    BY <1>1 DEF IInv, TypeOK
  <2>2. loop_depth = 0 <=> Loops(walk) = {}
    BY <1>1, <2>1, CounterZero
  <2>3. QED
    BY <2>2 DEF JumpGuardExact, LoopOpen, Loops
<1>2. ASSUME InitialLoopDepths = {0}
      PROVE  Spec => []JumpGuardExact
  <2>1. IInv => JumpGuardExact
    BY <1>1, <1>2
  <2>2. QED
    BY <2>1, Inductive, PTL
<1>3. QED
  BY <1>2

-----------------------------------------------------------------------------
(***************************************************************************)
(* Refinement.  TypeCheck implements LexicalScope: the stack of maps that  *)
(* find searches outermost first shows, after every step of the walk, what *)
(* opening, closing and declaring in nested blocks would make visible.     *)
(***************************************************************************)
\* The scope the constructor pushes never holds a declaration: it would
\* outlive every block.
BaseEmpty == fns = 0 => \A n \in Names : scopes[1][n] = Sentinel

RInv == IInv /\ BaseEmpty

\* The slot of the one scope find searches that declares n; 0 without any.
Slot(s, n) == IF Hits(s, n) = {} THEN 0 ELSE Outermost(Hits(s, n))

(***************************************************************************)
(* The abstract variables.                                                 *)
(***************************************************************************)
AbsOpen  == IF Intact THEN walk ELSE << >>
AbsType  == IF Intact THEN Visible(scopes) ELSE EmptyScope
AbsLevel == [n \in Names |->
                IF Intact /\ Hits(scopes, n) # {}
                THEN SlotLevel(Outermost(Hits(scopes, n))) ELSE 0]

(***************************************************************************)
(* How a slot and what find returns follow the stack.                      *)
(***************************************************************************)
LEMMA SlotFacts ==
    ASSUME NEW s \in Seq(ScopeMaps), NEW n \in Names, deficit = 0,
           UnshadowedIn(s)
    PROVE  /\ Slot(s, n) \in 0 .. Len(s)
           /\ Slot(s, n) = 0 <=> Hits(s, n) = {}
           /\ \A i \in 1 .. Len(s) : s[i][n] # Sentinel <=> i = Slot(s, n)
           /\ Slot(s, n) = 0 => find(s, n) = Sentinel
           /\ Slot(s, n) # 0 => find(s, n) = s[Slot(s, n)][n]
<1>1. Hits(s, n) = {i \in 1 .. Len(s) : s[i][n] # Sentinel}
  BY DEF Hits, Slots
<1>2. CASE Hits(s, n) = {}
  BY <1>1, <1>2 DEF Slot, find
<1>3. CASE Hits(s, n) # {}
  <2>1. PICK i \in Hits(s, n) : TRUE
    BY <1>3
  <2>2. \A j \in Hits(s, n) : j = i
    BY <2>1 DEF UnshadowedIn
  <2>3. Slot(s, n) = i
    <3>1. Hits(s, n) \in SUBSET Int
      BY <1>1
    <3>2. QED
      BY <1>3, <2>1, <2>2, <3>1, OutermostSingle DEF Slot
  <2>4. find(s, n) = s[i][n]
    BY <1>3, <2>3 DEF Slot, find
  <2>5. QED
    BY <1>1, <2>1, <2>2, <2>3, <2>4
<1>4. QED
  BY <1>2, <1>3

\* A slot that alone declares the name is its slot.
LEMMA SlotIs ==
    ASSUME NEW s \in Seq(ScopeMaps), NEW n \in Names, deficit = 0,
           NEW k \in 0 .. Len(s),
           \A i \in 1 .. Len(s) : s[i][n] # Sentinel <=> i = k
    PROVE  /\ Slot(s, n) = k
           /\ find(s, n) = IF k = 0 THEN Sentinel ELSE s[k][n]
<1>1. Hits(s, n) = {i \in 1 .. Len(s) : i = k}
  BY DEF Hits, Slots
<1>2. CASE k = 0
  <2>1. Hits(s, n) = {}
    BY <1>1, <1>2
  <2>2. QED
    BY <1>2, <2>1 DEF Slot, find
<1>3. CASE k # 0
  <2>1. /\ k \in Hits(s, n) /\ \A j \in Hits(s, n) : j = k
        /\ Hits(s, n) \in SUBSET Int
    BY <1>1, <1>3
  <2>2. Outermost(Hits(s, n)) = k
    BY <2>1, OutermostSingle
  <2>3. QED
    BY <1>3, <2>1, <2>2 DEF Slot, find
<1>4. QED
  BY <1>2, <1>3

LEMMA PushSlot ==
    ASSUME NEW s \in Seq(ScopeMaps), NEW n \in Names, deficit = 0,
           UnshadowedIn(s)
    PROVE  Slot(Push(s), n) = Slot(s, n) /\ find(Push(s), n) = find(s, n)
<1>1. /\ Slot(s, n) \in 0 .. Len(s)
      /\ \A i \in 1 .. Len(s) : s[i][n] # Sentinel <=> i = Slot(s, n)
      /\ find(s, n) = IF Slot(s, n) = 0 THEN Sentinel ELSE s[Slot(s, n)][n]
  BY SlotFacts
<1>2. /\ Push(s) \in Seq(ScopeMaps)
      /\ Len(Push(s)) = Len(s) + 1
      /\ \A i \in 1 .. Len(s) : Push(s)[i] = s[i]
      /\ Push(s)[Len(s) + 1][n] = Sentinel
  BY PushFacts, EmptyScopeType
<1>3. \A i \in 1 .. Len(Push(s)) : Push(s)[i][n] # Sentinel <=> i = Slot(s, n)
  BY <1>1, <1>2
<1>4. /\ Slot(Push(s), n) = Slot(s, n)
      /\ find(Push(s), n) = IF Slot(s, n) = 0 THEN Sentinel
                            ELSE Push(s)[Slot(s, n)][n]
  <2>1. Slot(s, n) \in 0 .. Len(Push(s))
    BY <1>1, <1>2
  <2>2. QED
    BY <1>2, <1>3, <2>1, SlotIs
<1>5. QED
  BY <1>1, <1>2, <1>4

LEMMA PopSlot ==
    ASSUME NEW s \in Seq(ScopeMaps), s # << >>, NEW n \in Names, deficit = 0,
           UnshadowedIn(s)
    PROVE  /\ Slot(Pop(s), n) = IF Slot(s, n) = Len(s) THEN 0 ELSE Slot(s, n)
           /\ find(Pop(s), n) = IF Slot(s, n) = Len(s) THEN Sentinel
                                                       ELSE find(s, n)
<1>1. /\ Slot(s, n) \in 0 .. Len(s)
      /\ \A i \in 1 .. Len(s) : s[i][n] # Sentinel <=> i = Slot(s, n)
      /\ find(s, n) = IF Slot(s, n) = 0 THEN Sentinel ELSE s[Slot(s, n)][n]
  BY SlotFacts
<1>2. /\ Pop(s) \in Seq(ScopeMaps)
      /\ Len(Pop(s)) = Len(s) - 1
      /\ \A i \in 1 .. Len(s) - 1 : Pop(s)[i] = s[i]
  BY PopFacts
<1> DEFINE k == IF Slot(s, n) = Len(s) THEN 0 ELSE Slot(s, n)
<1>3. k \in 0 .. Len(Pop(s))
  BY <1>1, <1>2
<1>4. \A i \in 1 .. Len(Pop(s)) : Pop(s)[i][n] # Sentinel <=> i = k
  BY <1>1, <1>2
<1>5. /\ Slot(Pop(s), n) = k
      /\ find(Pop(s), n) = IF k = 0 THEN Sentinel ELSE Pop(s)[k][n]
  <2> HIDE DEF k
  <2>1. QED
    BY <1>2, <1>3, <1>4, SlotIs
<1>6. QED
  BY <1>1, <1>2, <1>3, <1>5

\* The abstract level of a name, from its slot.
SlotLevels ==
    [n \in Names |-> IF Intact /\ Slot(scopes, n) # 0
                     THEN Slot(scopes, n) - (Len(scopes) - Len(walk)) ELSE 0]

LEMMA AbsLevelSlot == StackInv => AbsLevel = SlotLevels
<1> SUFFICES ASSUME StackInv PROVE AbsLevel = SlotLevels
  OBVIOUS
<1>1. ASSUME Intact, NEW n \in Names
      PROVE  Slot(scopes, n) = 0 <=> Hits(scopes, n) = {}
  BY <1>1, SlotFacts DEF StackInv, Intact
<1>2. ASSUME NEW n \in Names, Hits(scopes, n) # {}
      PROVE  SlotLevel(Outermost(Hits(scopes, n)))
                 = Slot(scopes, n) - (Len(scopes) - Len(walk))
  BY <1>2 DEF Slot, SlotLevel
<1>3. QED
  BY <1>1, <1>2 DEF AbsLevel, SlotLevels

LEMMA AbsLevelSlotNext == (StackInv => AbsLevel = SlotLevels)'
  BY AbsLevelSlot, PTL

(***************************************************************************)
(* The ways a step changes the two stacks.                                 *)
(***************************************************************************)
Opened(k) ==
    /\ scopes' = Push(scopes) /\ walk' = Append(walk, k)
    /\ UNCHANGED <<deficit, fns>>

Closed ==
    /\ walk # << >> /\ scopes' = Pop(scopes) /\ walk' = Unwound
    /\ UNCHANGED <<deficit, fns>>

Reopened(k) ==
    /\ walk # << >> /\ scopes' = Push(Pop(scopes)) /\ walk' = Append(Unwound, k)
    /\ UNCHANGED <<deficit, fns>>

Bound(n, t) ==
    /\ walk # << >> /\ find(scopes, n) = Sentinel
    /\ scopes' = store(n, t)
    /\ UNCHANGED <<walk, deficit, fns>>

Kept == UNCHANGED <<scopes, walk, deficit, fns>>

StackStep ==
    \/ \E k \in Blocks : Opened(k) \/ Reopened(k)
    \/ Closed
    \/ LeaveFunction
    \/ \E n \in Names, t \in BuiltinTypes : Bound(n, t)
    \/ Kept

\* A declaration stores a concrete type, whether annotated or inferred.
LEMMA DeclareStep ==
    ASSUME IInv, NEW n \in Names, NEW a \in Annotations \cup {NoAnnotation},
           NEW e \in Exprs, Declare(n, a, e)
    PROVE  StackStep
<1> DEFINE r == IF a = NoAnnotation
                THEN InferTop(e, Visible(scopes), function_map)
                ELSE CheckExpr(e, a, Visible(scopes), function_map)
           t == IF a = NoAnnotation THEN r.type ELSE a
<1>1. \/ /\ find(scopes, n) = Sentinel /\ r.ok
         /\ scopes' = store(n, t)
      \/ scopes' = scopes
  BY DEF Declare
<1>2. walk # << >> /\ UNCHANGED <<deficit, walk, fns>>
  BY DEF Declare, InBlock
<1>3. /\ Visible(scopes) \in ScopeMaps
      /\ function_map \in SUBSET FnNames
  BY VisibleType DEF IInv, StackInv, TypeOK
<1>4. r.ok => t \in BuiltinTypes
  BY <1>3, InferTopAssumption, BoundsAssumption
  DEF InferTopAssumption, BoundsAssumption
<1> HIDE DEF r, t
<1>5. QED
  BY <1>1, <1>2, <1>4 DEF StackStep, Bound, Kept

LEMMA StepIsStackStep ==
    ASSUME IInv, [Next]_vars
    PROVE  StackStep
<1> ThenBlocks \subseteq Blocks /\ {"fn", "else", "loop"} \subseteq Blocks
  BY DEF Blocks
<1>1. ASSUME NEW f \in FnNames, EnterFunction(f) PROVE StackStep
  <2>1. walk = << >> /\ walk' = <<"fn">> /\ Append(<< >>, "fn") = <<"fn">>
    BY <1>1 DEF EnterFunction
  <2>2. walk' = Append(walk, "fn")
    BY <2>1
  <2>3. Opened("fn")
    BY <1>1, <2>2 DEF EnterFunction, Opened
  <2>4. QED
    BY <2>3 DEF StackStep
<1>2. ASSUME NEW e \in Exprs, NEW k \in ThenBlocks, EnterIf(e, k) \/ ElseIf(e, k)
      PROVE  StackStep
  <2>1. Opened(k) \/ Reopened(k) \/ Closed \/ Kept
    BY <1>2 DEF EnterIf, ElseIf, InBlock, At, Opened, Reopened, Closed, Kept
  <2>2. QED
    BY <2>1 DEF StackStep
<1>3. CASE EnterElse
  BY <1>3 DEF EnterElse, At, StackStep, Reopened
<1>4. CASE LeaveIf \/ LeaveLoop
  BY <1>4 DEF LeaveIf, LeaveLoop, At, StackStep, Closed
<1>5. CASE EnterLoop
  BY <1>5 DEF EnterLoop, StackStep, Opened
<1>6. CASE Statement
  <2>1. ASSUME NEW n \in Names, NEW e \in Exprs, Assign(n, e) PROVE Kept
    BY <2>1 DEF Assign, Kept
  <2>2. ASSUME NEW e \in Exprs, Show(e) \/ Return(e) PROVE Kept
    BY <2>2 DEF Show, Return, Kept
  <2>3. CASE Jump
    BY <2>3 DEF Jump, StackStep, Kept
  <2>4. QED
    BY <1>6, <2>1, <2>2, <2>3, DeclareStep DEF Statement, StackStep
<1>7. CASE MemoryFault \/ Finish \/ Terminated \/ UNCHANGED vars
  BY <1>7 DEF MemoryFault, Finish, Terminated, vars, StackStep, Kept
<1>8. CASE LeaveFunction
  BY <1>8 DEF StackStep
<1>9. QED
  BY <1>1, <1>2, <1>3, <1>4, <1>5, <1>6, <1>7, <1>8 DEF Next, Branch

(***************************************************************************)
(* The base scope stays empty.                                             *)
(***************************************************************************)
LEMMA BaseStep ==
    ASSUME IInv, BaseEmpty, [Next]_vars
    PROVE  BaseEmpty'
<1> SUFFICES ASSUME fns' = 0, NEW m \in Names PROVE scopes'[1][m] = Sentinel
  BY DEF BaseEmpty
<1>1. /\ scopes \in Seq(ScopeMaps) /\ walk \in Seq(Blocks)
      /\ fns \in Nat /\ deficit \in Nat
      /\ Len(scopes) = Len(walk) + (IF fns = 0 THEN 1 ELSE 0)
  BY DEF IInv, StackInv, ScopesMatchBlocks
<1>2. walk # << >> => Len(walk) >= 1
  BY <1>1
<1>3. ASSUME fns = 0 PROVE scopes[1][m] = Sentinel /\ Len(scopes) >= 1
  BY <1>1, <1>3 DEF BaseEmpty
<1>4. ASSUME fns = 0, walk # << >>
      PROVE  Pop(scopes) \in Seq(ScopeMaps) /\ Len(Pop(scopes)) >= 1
             /\ Pop(scopes)[1] = scopes[1]
  <2>1. Len(scopes) >= 2 /\ scopes # << >>
    BY <1>1, <1>2, <1>4
  <2>2. QED
    BY <1>1, <2>1, PopFacts
<1>5. ASSUME NEW k \in Blocks, Opened(k) PROVE scopes'[1][m] = Sentinel
  BY <1>1, <1>3, <1>5, PushFacts DEF Opened
<1>6. ASSUME NEW k \in Blocks, Reopened(k) PROVE scopes'[1][m] = Sentinel
  BY <1>3, <1>4, <1>6, PushFacts DEF Reopened
<1>7. CASE Closed
  BY <1>3, <1>4, <1>7 DEF Closed
<1>8. CASE LeaveFunction
  BY <1>1, <1>8 DEF LeaveFunction
<1>9. ASSUME NEW n \in Names, NEW t \in BuiltinTypes, Bound(n, t)
      PROVE  scopes'[1][m] = Sentinel
  <2>1. Len(scopes) >= 2 /\ scopes[1][m] = Sentinel
    BY <1>1, <1>2, <1>3, <1>9 DEF Bound
  <2>2. scopes'[1] = scopes[1]
    BY <1>1, <1>9, <2>1 DEF Bound, store
  <2>3. QED
    BY <2>1, <2>2
<1>10. CASE Kept
  BY <1>3, <1>10 DEF Kept
<1>11. QED
  BY <1>5, <1>6, <1>7, <1>8, <1>9, <1>10, StepIsStackStep DEF StackStep

LEMMA InductiveRInv == Spec => []RInv
<1>1. Init => BaseEmpty
  BY EmptyScopeType DEF Init, BaseEmpty
<1>2. RInv /\ [Next]_vars => RInv'
  BY BaseStep, StepIInv DEF RInv
<1>3. QED
  BY <1>1, <1>2, InitIInv, PTL DEF Spec, RInv

(***************************************************************************)
(* Every step of the walk is a step of the abstract specification.         *)
(***************************************************************************)
\* What a primed stack shows, while no empty stack is popped.
LEMMA Primed ==
    ASSUME deficit' = deficit, NEW n \in Names
    PROVE  /\ Slot(scopes, n)' = Slot(scopes', n)
           /\ find(scopes, n)' = find(scopes', n)
  BY DEF Slot, find, Hits, Slots

\* Two states that show the same slots and types have the same image.
LEMMA SameImage ==
    ASSUME StackInv, StackInv', Intact, deficit' = deficit,
           Len(scopes') - Len(walk') = Len(scopes) - Len(walk),
           \A n \in Names : /\ Slot(scopes', n) = Slot(scopes, n)
                            /\ find(scopes', n) = find(scopes, n)
    PROVE  AbsType' = AbsType /\ AbsLevel' = AbsLevel
<1>1. \A n \in Names : /\ Slot(scopes, n)' = Slot(scopes, n)
                       /\ find(scopes, n)' = find(scopes, n)
  BY Primed
<1>2. AbsType' = AbsType
  BY <1>1 DEF AbsType, Intact, Visible
<1>3. AbsLevel = SlotLevels /\ AbsLevel' = SlotLevels'
  BY AbsLevelSlot, AbsLevelSlotNext
<1>4. SlotLevels' = SlotLevels
  BY <1>1 DEF SlotLevels, Intact
<1>5. QED
  BY <1>2, <1>3, <1>4

\* The names whose slot is the innermost one, and no others, are forgotten.
LEMMA Forgotten ==
    ASSUME StackInv, StackInv', Intact, deficit' = deficit, walk # << >>,
           Len(scopes') - Len(walk') = Len(scopes) - Len(walk),
           \A n \in Names :
              /\ Slot(scopes', n) = IF Slot(scopes, n) = Len(scopes) THEN 0
                                    ELSE Slot(scopes, n)
              /\ find(scopes', n) = IF Slot(scopes, n) = Len(scopes)
                                    THEN Sentinel ELSE find(scopes, n)
    PROVE  Lexical!Forget(Len(walk))
<1>1. /\ Len(walk) \in Nat \ {0} /\ Len(scopes) \in Nat
      /\ walk' \in Seq(Blocks) /\ scopes' \in Seq(ScopeMaps)
  BY DEF StackInv
<1>2. \A n \in Names : /\ Slot(scopes, n)' = Slot(scopes', n)
                       /\ find(scopes, n)' = find(scopes', n)
  BY Primed
<1>3. \A n \in Names : Slot(scopes, n) \in 0 .. Len(scopes)
  BY SlotFacts DEF StackInv, Intact
<1>4. AbsLevel = SlotLevels /\ AbsLevel' = SlotLevels'
  BY AbsLevelSlot, AbsLevelSlotNext
<1>5. \A n \in Names : AbsLevel[n] = Len(walk) <=> Slot(scopes, n) = Len(scopes)
  BY <1>1, <1>3, <1>4 DEF SlotLevels, Intact, StackInv, ScopesMatchBlocks
<1>6. AbsType' = [n \in Names |-> IF AbsLevel[n] = Len(walk) THEN Sentinel
                                                             ELSE AbsType[n]]
  BY <1>2, <1>5 DEF AbsType, Intact, Visible
<1>7. AbsLevel' = [n \in Names |-> IF AbsLevel[n] = Len(walk) THEN 0
                                                              ELSE AbsLevel[n]]
  BY <1>1, <1>2, <1>3, <1>4, <1>5 DEF SlotLevels, Intact
<1>8. QED
  BY <1>6, <1>7 DEF Lexical!Forget, AbsType, AbsLevel

\* The innermost slot goes, and an empty one may take its place.
LEMMA InnermostGone ==
    ASSUME StackInv, Intact, walk # << >>, NEW n \in Names
    PROVE  /\ Slot(Pop(scopes), n) = IF Slot(scopes, n) = Len(scopes) THEN 0
                                     ELSE Slot(scopes, n)
           /\ find(Pop(scopes), n) = IF Slot(scopes, n) = Len(scopes)
                                     THEN Sentinel ELSE find(scopes, n)
           /\ Slot(Push(Pop(scopes)), n) = Slot(Pop(scopes), n)
           /\ find(Push(Pop(scopes)), n) = find(Pop(scopes), n)
<1>1. /\ scopes \in Seq(ScopeMaps) /\ deficit = 0 /\ UnshadowedIn(scopes)
      /\ scopes # << >>
  BY DEF StackInv, Intact, ScopesMatchBlocks
<1>2. Pop(scopes) \in Seq(ScopeMaps) /\ UnshadowedIn(Pop(scopes))
  BY <1>1, PopFacts, HitsPop DEF UnshadowedIn
<1>3. QED
  BY <1>1, <1>2, PopSlot, PushSlot

LEMMA OpenedImplements ==
    ASSUME StackInv, StackInv', Intact, NEW k \in Blocks, Opened(k)
    PROVE  Lexical!Open(k)
<1>1. Len(scopes') - Len(walk') = Len(scopes) - Len(walk)
  <2>1. /\ Len(scopes') = Len(scopes) + 1 /\ Len(walk') = Len(walk) + 1
        /\ Len(scopes) \in Nat /\ Len(walk) \in Nat
    BY PushFacts DEF Opened, StackInv
  <2>2. QED
    BY <2>1
<1>2. \A n \in Names : /\ Slot(scopes', n) = Slot(scopes, n)
                       /\ find(scopes', n) = find(scopes, n)
  BY PushSlot DEF Opened, StackInv, Intact
<1>3. AbsType' = AbsType /\ AbsLevel' = AbsLevel
  BY <1>1, <1>2, SameImage DEF Opened
<1>4. AbsOpen' = Append(AbsOpen, k)
  BY DEF Opened, AbsOpen, Intact
<1>5. QED
  BY <1>3, <1>4 DEF Lexical!Open, AbsOpen, AbsType, AbsLevel

LEMMA ClosedImplements ==
    ASSUME StackInv, StackInv', Intact, Closed
    PROVE  Lexical!Close
<1>1. /\ Len(scopes') = Len(scopes) - 1 /\ Len(walk') = Len(walk) - 1
      /\ Len(scopes) \in Nat /\ Len(walk) \in Nat
  BY PopFacts DEF Closed, StackInv, ScopesMatchBlocks, Unwound
<1>2. Lexical!Forget(Len(walk))
  BY <1>1, InnermostGone, Forgotten DEF Closed
<1>3. AbsOpen = walk /\ AbsOpen' = Pop(walk) /\ AbsOpen # << >>
  BY DEF Closed, AbsOpen, Intact, Unwound
<1>4. QED
  BY <1>2, <1>3 DEF Lexical!Close, Lexical!Depth, AbsOpen, Pop

LEMMA ReopenedImplements ==
    ASSUME StackInv, StackInv', Intact, NEW k \in Blocks, Reopened(k)
    PROVE  Lexical!Reopen(k)
<1>1. /\ Len(scopes) \in Nat \ {0} /\ scopes \in Seq(ScopeMaps)
      /\ Len(walk) \in Nat \ {0} /\ walk \in Seq(Blocks) /\ scopes # << >>
      /\ walk # << >>
  BY DEF Reopened, StackInv, ScopesMatchBlocks
<1>2. Len(scopes') = Len(scopes)
  BY <1>1, PopFacts, PushFacts DEF Reopened
<1>3. walk' = [walk EXCEPT ![Len(walk)] = k] /\ Len(walk') = Len(walk)
  <2>1. /\ Unwound \in Seq(Blocks) /\ Len(Unwound) = Len(walk) - 1
        /\ \A i \in 1 .. Len(walk) - 1 : Unwound[i] = walk[i]
    BY <1>1, PopFacts DEF Unwound
  <2>2. /\ walk' \in Seq(Blocks) /\ Len(walk') = Len(walk)
        /\ \A i \in 1 .. Len(walk) : walk'[i] = IF i = Len(walk) THEN k
                                                               ELSE walk[i]
    BY <1>1, <2>1 DEF Reopened
  <2>3. walk' = [i \in 1 .. Len(walk) |-> walk'[i]]
    BY <2>2
  <2>4. [walk EXCEPT ![Len(walk)] = k]
            = [i \in 1 .. Len(walk) |-> IF i = Len(walk) THEN k ELSE walk[i]]
    BY <1>1
  <2>5. QED
    BY <2>2, <2>3, <2>4
<1>4. Lexical!Forget(Len(walk))
  BY <1>1, <1>2, <1>3, InnermostGone, Forgotten DEF Reopened
<1>5. /\ AbsOpen = walk /\ AbsOpen # << >>
      /\ AbsOpen' = [AbsOpen EXCEPT ![Len(AbsOpen)] = k]
  BY <1>1, <1>3 DEF Reopened, AbsOpen, Intact
<1>6. QED
  BY <1>4, <1>5 DEF Lexical!Reopen, Lexical!Depth, AbsOpen

LEMMA BoundImplements ==
    ASSUME StackInv, StackInv', Intact,
           NEW n \in Names, NEW t \in BuiltinTypes, Bound(n, t)
    PROVE  Lexical!Bind(n, t)
<1>1. /\ Len(scopes) \in Nat \ {0} /\ scopes \in Seq(ScopeMaps)
      /\ Len(walk) \in Nat \ {0} /\ deficit = 0 /\ UnshadowedIn(scopes)
  BY DEF Bound, StackInv, ScopesMatchBlocks, Intact
<1>2. /\ scopes' \in Seq(ScopeMaps) /\ Len(scopes') = Len(scopes)
      /\ \A i \in 1 .. Len(scopes), m \in Names :
            scopes'[i][m] = IF i = Len(scopes) /\ m = n THEN t
                                                        ELSE scopes[i][m]
  BY <1>1 DEF Bound, store, ScopeMaps
<1>3. \A m \in Names :
         /\ Slot(scopes, m) \in 0 .. Len(scopes)
         /\ \A i \in 1 .. Len(scopes) :
               scopes[i][m] # Sentinel <=> i = Slot(scopes, m)
         /\ find(scopes, m) = IF Slot(scopes, m) = 0 THEN Sentinel
                              ELSE scopes[Slot(scopes, m)][m]
  BY <1>1, SlotFacts
<1>4. Slot(scopes, n) = 0
  BY <1>1, FindFacts DEF Bound, Slot
<1>5. Slot(scopes', n) = Len(scopes) /\ find(scopes', n) = t
  <2>1. \A i \in 1 .. Len(scopes') : scopes'[i][n] # Sentinel <=> i = Len(scopes)
    BY <1>1, <1>2, <1>3, <1>4, SentinelIsNoType
  <2>2. QED
    BY <1>1, <1>2, <2>1, SlotIs
<1>6. ASSUME NEW m \in Names, m # n
      PROVE  Slot(scopes', m) = Slot(scopes, m) /\ find(scopes', m) = find(scopes, m)
  <2>1. \A i \in 1 .. Len(scopes') :
           scopes'[i][m] # Sentinel <=> i = Slot(scopes, m)
    <3>1. \A i \in 1 .. Len(scopes) : scopes'[i][m] = scopes[i][m]
      BY ONLY <1>2, <1>6, m \in Names
    <3>2. \A i \in 1 .. Len(scopes) : scopes[i][m] # Sentinel <=> i = Slot(scopes, m)
      BY ONLY <1>3, m \in Names
    <3>3. QED
      BY ONLY <1>2, <3>1, <3>2
  <2>2. /\ Slot(scopes', m) = Slot(scopes, m)
        /\ find(scopes', m) = IF Slot(scopes, m) = 0 THEN Sentinel
                              ELSE scopes'[Slot(scopes, m)][m]
    BY <1>1, <1>2, <1>3, <2>1, SlotIs
  <2>3. QED
    BY <1>1, <1>2, <1>3, <1>6, <2>2
<1>7. \A m \in Names : /\ Slot(scopes, m)' = Slot(scopes', m)
                       /\ find(scopes, m)' = find(scopes', m)
  BY Primed DEF Bound
<1>8. AbsLevel = SlotLevels /\ AbsLevel' = SlotLevels'
  BY AbsLevelSlot, AbsLevelSlotNext
<1>9. AbsType[n] = Sentinel /\ AbsType' = [AbsType EXCEPT ![n] = t]
  BY <1>5, <1>6, <1>7 DEF AbsType, Intact, Visible, Bound
<1>10. AbsLevel' = [AbsLevel EXCEPT ![n] = Len(walk)]
  <2>1. walk' = walk /\ Intact' /\ Len(walk) \in Nat
    BY <1>1 DEF Bound, Intact
  <2>2. ASSUME NEW m \in Names
        PROVE  SlotLevels'[m] = IF m = n THEN Len(walk) ELSE SlotLevels[m]
    BY <1>1, <1>2, <1>5, <1>6, <1>7, <2>1, <2>2 DEF SlotLevels
  <2>3. SlotLevels' = [m \in Names |-> SlotLevels'[m]]
    BY DEF SlotLevels
  <2>4. [SlotLevels EXCEPT ![n] = Len(walk)]
            = [m \in Names |-> IF m = n THEN Len(walk) ELSE SlotLevels[m]]
    BY DEF SlotLevels
  <2>5. QED
    BY <1>8, <2>2, <2>3, <2>4
<1>11. AbsOpen = walk /\ AbsOpen' = AbsOpen /\ AbsOpen # << >>
  BY DEF Bound, AbsOpen, Intact
<1>12. QED
  BY <1>9, <1>10, <1>11
  DEF Lexical!Bind, Lexical!Depth, AbsOpen, AbsType, AbsLevel

\* The end of a function empties the stack: nothing of it is visible after.
LEMMA LeaveFunctionImplements ==
    ASSUME RInv, StackInv', Intact, LeaveFunction
    PROVE  Lexical!Close
<1>1. /\ Len(walk) = 1 /\ walk # << >> /\ walk' = << >> /\ fns \in Nat
      /\ Len(scopes) = IF fns = 0 THEN 2 ELSE 1
      /\ scopes' = << >> /\ scopes \in Seq(ScopeMaps)
      /\ walk \in Seq(Blocks) /\ deficit = 0 /\ UnshadowedIn(scopes)
  BY LeaveFunctionFacts DEF RInv, IInv, StackInv, Intact
<1>2. \A n \in Names : Slot(scopes, n) \in {0, Len(scopes)}
  <2>1. ASSUME NEW n \in Names, fns = 0 PROVE Slot(scopes, n) # 1
    BY <1>1, <2>1, SlotFacts DEF RInv, BaseEmpty
  <2>2. \A n \in Names : Slot(scopes, n) \in 0 .. Len(scopes)
    BY <1>1, SlotFacts
  <2>3. QED
    BY <1>1, <2>1, <2>2
<1>3. AbsLevel = SlotLevels
  BY AbsLevelSlot DEF RInv, IInv
<1>4. \A n \in Names : \/ AbsLevel[n] = 1
                       \/ AbsLevel[n] = 0 /\ AbsType[n] = Sentinel
  <2>1. \A n \in Names : Slot(scopes, n) = 0 => find(scopes, n) = Sentinel
    BY <1>1, SlotFacts
  <2>2. QED
    BY <1>1, <1>2, <1>3, <2>1 DEF SlotLevels, AbsType, Visible, Intact
<1>5. \A n \in Names : Hits(scopes, n)' = {}
  BY <1>1 DEF Hits, Slots, StackInv
<1>6. AbsType' = [n \in Names |-> Sentinel] /\ AbsLevel' = [n \in Names |-> 0]
  BY <1>5 DEF AbsType, AbsLevel, Visible, find, EmptyScope
<1>7. Lexical!Forget(1)
  BY <1>4, <1>6 DEF Lexical!Forget, AbsType, AbsLevel
<1>8. /\ AbsOpen # << >> /\ Len(AbsOpen) = 1
      /\ AbsOpen' = SubSeq(AbsOpen, 1, Len(AbsOpen) - 1)
  <2>1. SubSeq(walk, 1, 0) = << >>
    BY <1>1
  <2>2. AbsOpen = walk /\ AbsOpen' = << >> /\ Len(walk) - 1 = 0
    BY <1>1 DEF AbsOpen, Intact
  <2>3. QED
    BY <1>1, <2>1, <2>2
<1>9. QED
  BY <1>7, <1>8 DEF Lexical!Close, Lexical!Depth, AbsOpen

\* After an empty stack was popped the image no longer moves.
LEMMA Frozen ==
    ASSUME RInv, ~Intact, StackStep
    PROVE  UNCHANGED Lexical!lexical
<1>1. deficit \in Nat /\ deficit # 0 /\ deficit' # 0
  <2>1. deficit \in Nat /\ deficit # 0
    BY DEF RInv, IInv, StackInv, Intact
  <2>2. CASE LeaveFunction
    BY <2>1, <2>2, LeaveFunctionFacts DEF RInv
  <2>3. QED
    BY <2>1, <2>2 DEF StackStep, Opened, Reopened, Closed, Bound, Kept
<1>2. QED
  BY <1>1 DEF Lexical!lexical, Intact

LEMMA StepImplements ==
    RInv /\ RInv' /\ [Next]_vars => [Lexical!LexicalNext]_(Lexical!lexical)
<1> SUFFICES ASSUME RInv, RInv', [Next]_vars
             PROVE  [Lexical!LexicalNext]_(Lexical!lexical)
  OBVIOUS
<1>1. IInv /\ StackInv /\ StackInv' /\ StackStep
  BY StepIsStackStep DEF RInv, IInv
<1>2. CASE ~Intact
  BY <1>1, <1>2, Frozen
<1>3. CASE Intact
  <2>1. ASSUME NEW k \in Blocks, Opened(k) \/ Reopened(k)
        PROVE  Lexical!LexicalNext
    BY <1>1, <1>3, <2>1, OpenedImplements, ReopenedImplements
    DEF Lexical!LexicalNext
  <2>2. CASE Closed \/ LeaveFunction
    BY <1>1, <1>3, <2>2, ClosedImplements, LeaveFunctionImplements
    DEF Lexical!LexicalNext
  <2>3. ASSUME NEW n \in Names, NEW t \in BuiltinTypes, Bound(n, t)
        PROVE  Lexical!LexicalNext
    BY <1>1, <1>3, <2>3, BoundImplements DEF Lexical!LexicalNext
  <2>4. CASE Kept
    BY <2>4 DEF Lexical!lexical, Kept, Intact, Visible, find, Hits, Slots,
                SlotLevel
  <2>5. QED
    BY <1>1, <2>1, <2>2, <2>3, <2>4 DEF StackStep
<1>4. QED
  BY <1>2, <1>3

LEMMA InitImplements == Init => Lexical!LexicalInit
<1> SUFFICES ASSUME Init PROVE Lexical!LexicalInit
  OBVIOUS
<1>1. \A n \in Names : Hits(scopes, n) = {}
  BY EmptyScopeType DEF Init, Hits, Slots
<1>2. QED
  BY <1>1 DEF Init, Lexical!LexicalInit, Intact, Visible, find, EmptyScope

(***************************************************************************)
(* The theorem.                                                            *)
(***************************************************************************)

\* The walk over statements implements lexical scoping, for every program,
\* nesting and typing of expressions: a name is visible with its declared type
\* from its declaration to the end of the block that holds it and nowhere else,
\* although the code keeps a vector of maps, searches it outermost first
\* (type_check_visitor.cxx:107-114) and pops it once too often per function
\* (type_check_visitor.cxx:194).
THEOREM ScopesImplementLexical == Spec => ImplementsLexicalScope
<1>1. Init => Lexical!LexicalInit
  BY InitImplements
<1>2. RInv /\ RInv' /\ [Next]_vars => [Lexical!LexicalNext]_(Lexical!lexical)
  BY StepImplements
<1>3. QED
  BY <1>1, <1>2, InductiveRInv, PTL
  DEF Spec, ImplementsLexicalScope, Lexical!LexicalSpec
==============================================================================
